---- MODULE Spec2Model ----
(***************************************************************************)
(* Verification model of the mongosql compiler core: the desugarer pass    *)
(* driver, the algebrizer (clause ordering, name resolution, joins,        *)
(* functions, subqueries), the subquery-expression desugarer, the MQL      *)
(* code generator and the result-set sizes of schema inference.            *)
(*                                                                         *)
(* Every component is a small state machine held in one record-valued      *)
(* variable; a component that a specification does not exercise stays Off. *)
(***************************************************************************)
EXTENDS Integers, Sequences, FiniteSets, TLC

VARIABLES dsg, sel, res, jn, fnc, sq, la, sd, cg, sch

vars == <<dsg, sel, res, jn, fnc, sq, la, sd, cg, sch>>

Off == [pc |-> "off"]

Ok(v) == [ok |-> TRUE, val |-> v]
Err(e) == [ok |-> FALSE, err |-> e]

(***************************************************************************)
(* air/desugarer/mod.rs : desugar_pipeline                                 *)
(***************************************************************************)

\* Number of distinct input pipelines fed to desugar_pipeline.
MaxPipelines == 6

\* The pass list built by desugar_pipeline, in vector order.
passes ==
    << "JoinDesugarerPass",
       "AccumulatorsDesugarerPass",
       "LookupDesugarerPass",
       "SubqueryExprDesugarerPass",
       "MatchDesugarerPass",
       "UnsupportedOperatorsDesugarerPass",
       "SQLNullSemanticsOperatorsDesugarerPass" >>

\* The desugarer Error enum.
DesugarError == {"TodoError", "InvalidLikePatternError"}

\* Pass::apply.  A pipeline is represented by its provenance: the input
\* pipeline followed by the passes that rewrote it.  SubqueryExprDesugarerPass
\* is infallible (its apply always returns Ok); the other passes may return
\* any desugarer error.
PassApply(pass, pipeline) ==
    {Ok(Append(pipeline, pass))} \cup
    (IF pass = "SubqueryExprDesugarerPass"
       THEN {}
       ELSE {Err(e) : e \in DesugarError})

DsgInit ==
    /\ dsg = [pc |-> "idle", desugared |-> <<>>, i |-> 1, log |-> <<>>,
              result |-> Err("none")]
    /\ sel = Off /\ res = Off /\ jn = Off /\ fnc = Off /\ sq = Off /\ la = Off
    /\ sd = Off /\ cg = Off /\ sch = Off

notDsg == <<sel, res, jn, fnc, sq, la, sd, cg, sch>>

\* let mut desugared = pipeline;
desugar_pipeline_call ==
    /\ dsg.pc = "idle"
    /\ \E p \in 1..MaxPipelines :
         dsg' = [pc |-> "loop", desugared |-> <<p>>, i |-> 1, log |-> <<>>,
                 result |-> Err("none")]
    /\ UNCHANGED notDsg

\* One iteration of `for pass in passes { desugared = pass.apply(desugared)? }`
desugar_pipeline_pass_ok_as(d, r) ==
    [d EXCEPT !.desugared = r.val,
              !.i = d.i + 2,
              !.log = Append(d.log, [pass |-> passes[d.i], input |-> d.desugared])]

desugar_pipeline_pass_ok(d, r) ==
    [d EXCEPT !.desugared = r.val,
              !.i = d.i + 1,
              !.log = Append(d.log, [pass |-> passes[d.i], input |-> d.desugared])]

desugar_pipeline_pass_err(d, r) ==
    [d EXCEPT !.pc = "done",
              !.result = r,
              !.log = Append(d.log, [pass |-> passes[d.i], input |-> d.desugared])]

desugar_pipeline_iter ==
    /\ dsg.pc = "loop"
    /\ dsg.i <= Len(passes)
    /\ \E r \in PassApply(passes[dsg.i], dsg.desugared) :
         dsg' = IF r.ok THEN desugar_pipeline_pass_ok(dsg, r)
                        ELSE desugar_pipeline_pass_err(dsg, r)
    /\ UNCHANGED notDsg

\* Ok(desugared)
desugar_pipeline_return ==
    /\ dsg.pc = "loop"
    /\ dsg.i > Len(passes)
    /\ dsg' = [dsg EXCEPT !.pc = "done", !.result = Ok(dsg.desugared)]
    /\ UNCHANGED notDsg

DsgNext ==
    \/ desugar_pipeline_call
    \/ desugar_pipeline_iter
    \/ desugar_pipeline_return

SpecDesugar == DsgInit /\ [][DsgNext]_vars

\* The names of the passes recorded in the log, in application order.
RECURSIVE LogPasses(_)
LogPasses(log) ==
    IF log = <<>> THEN <<>>
    ELSE <<log[1].pass>> \o LogPasses(Tail(log))

IsPrefix(s, t) == Len(s) <= Len(t) /\ SubSeq(t, 1, Len(s)) = s

\* C1: desugar_pipeline applies the seven passes in the fixed order Join,
\* Accumulators, Lookup, SubqueryExpr, Match, Unsupported-operators,
\* SQL-null-semantics-operators; each pass receives the output of the
\* previous one (the first receives the input pipeline); on success all
\* seven were applied and the result is the last output; on an error the
\* error of the failing pass is the result and no later pass was applied.
C1_PassOrder ==
    dsg.pc # "off" =>
      /\ IsPrefix(LogPasses(dsg.log), passes)
      /\ \A k \in 1..Len(dsg.log) :
            /\ Len(dsg.log[k].input) = k
            /\ k > 1 => dsg.log[k].input =
                          Append(dsg.log[k-1].input, passes[k-1])
      /\ (dsg.pc = "done" /\ dsg.result.ok) =>
            /\ LogPasses(dsg.log) = passes
            /\ dsg.result.val = Append(dsg.log[7].input, passes[7])
      /\ (dsg.pc = "done" /\ ~dsg.result.ok) =>
            /\ dsg.result.err \in DesugarError
            /\ Len(dsg.log) < 8
            /\ dsg.desugared = dsg.log[Len(dsg.log)].input

C1_Witness_Ok ==
    dsg.pc = "done" /\ dsg.result.ok /\ Len(dsg.log) = 7

(***************************************************************************)
(* algebrizer/definitions.rs : algebrize_select_query and its clauses      *)
(***************************************************************************)

\* An IR stage is the sequence of its nodes from the innermost source to the
\* outermost node.  Each node records its kind, the clause whose AST it was
\* built from, and whether the node passes schema inference.
Node(kind, clause, typed) == [kind |-> kind, clause |-> clause, typed |-> typed]

\* Stage::schema: inference succeeds iff every node of the stage checks.
StageSchemaOk(plan) == \A k \in 1..Len(plan) : plan[k].typed

\* The clause descriptors of an ast::SelectQuery.
\*   "None"      the clause is absent (an Option that is None)
\*   "Ok"        present, algebrizes and schema-checks
\*   "ExprErr"   present, algebrizing one of its expressions fails
\*   "SchemaErr" present, the node built from it fails schema inference
\* from_clause additionally: "Err" (algebrize_datasource fails) and
\* "Unchecked" (algebrize_datasource returns a stage that was not
\* schema-checked and does not check, see the Join arm).
\* select_clause: "Star", "Values", "Distinct", "NonStar", "ExprErr",
\* "SchemaErr" (the last two are Values bodies).
OptClause == {"None", "Ok", "ExprErr", "SchemaErr"}

SelectQueryAsts ==
    [from_clause     : {"None", "Ok", "Err", "Unchecked"},
     where_clause    : OptClause,
     group_by_clause : OptClause \ {"ExprErr"},
     having_clause   : OptClause \ {"ExprErr"},
     select_clause   : {"Star", "Values", "Distinct", "NonStar", "ExprErr", "SchemaErr"},
     order_by_clause : OptClause \ {"SchemaErr"},
     offset          : {"None", "Some"},
     limit           : {"None", "Some"}]

algebrize_from_clause(ast_node) ==
    CASE ast_node = "None" -> Err("NoFromClause")
      [] ast_node = "Err" -> Err("DatasourceError")
      [] ast_node = "Unchecked" -> Ok(<<Node("Datasource", "from", FALSE)>>)
      [] OTHER -> Ok(<<Node("Datasource", "from", TRUE)>>)

\* Shared shape of the clauses that wrap `source` in one node built from an
\* optional AST: Filter (WHERE, HAVING) and Group.
OptionalNodeClause(ast_node, source, kind, clause) ==
    IF ast_node = "None"
      THEN IF StageSchemaOk(source) THEN Ok(source) ELSE Err("SchemaChecking")
    ELSE IF ~StageSchemaOk(source) THEN Err("SchemaChecking")
    ELSE IF ast_node = "ExprErr" THEN Err("ExprError")
    ELSE IF ast_node = "SchemaErr" THEN Err("SchemaChecking")
    ELSE Ok(Append(source, Node(kind, clause, TRUE)))

algebrize_filter_clause(ast_node, source, clause) ==
    OptionalNodeClause(ast_node, source, "Filter", clause)

algebrize_group_by_clause(ast_node, source) ==
    OptionalNodeClause(ast_node, source, "Group", "group_by")

algebrize_select_values_body(exprs, source) ==
    IF ~StageSchemaOk(source) THEN Err("SchemaChecking")
    ELSE IF exprs = "ExprErr" THEN Err("ExprError")
    ELSE IF exprs = "SchemaErr" THEN Err("SchemaChecking")
    ELSE Ok(Append(source, Node("Project", "select", TRUE)))

algebrize_select_clause(ast_node, source) ==
    CASE ast_node = "Distinct" -> Err("DistinctSelect")
      [] ast_node = "Star" ->
           IF StageSchemaOk(source) THEN Ok(source) ELSE Err("SchemaChecking")
      [] ast_node = "NonStar" -> Err("NonStarStandardSelectBody")
      [] OTHER -> algebrize_select_values_body(ast_node, source)

algebrize_order_by_clause(ast_node, source) ==
    IF ~StageSchemaOk(source) THEN Err("SchemaChecking")
    ELSE IF ast_node = "None" THEN Ok(source)
    ELSE IF ast_node = "ExprErr" THEN Err("ExprError")
    ELSE Ok(Append(source, Node("Sort", "order_by", TRUE)))

algebrize_offset_clause(ast_node, source) ==
    IF ast_node = "None" THEN Ok(source)
    ELSE IF ~StageSchemaOk(source) THEN Err("SchemaChecking")
    ELSE Ok(Append(source, Node("Offset", "offset", TRUE)))

algebrize_limit_clause(ast_node, source) ==
    IF ast_node = "None" THEN Ok(source)
    ELSE IF ~StageSchemaOk(source) THEN Err("SchemaChecking")
    ELSE Ok(Append(source, Node("Limit", "limit", TRUE)))

\* The statement sequence of algebrize_select_query.
select_query_steps_as ==
    << "from", "where", "group_by", "having", "select", "order_by",
       "limit", "offset" >>

select_query_steps ==
    << "from", "where", "group_by", "having", "select", "order_by",
       "offset", "limit" >>

\* The call made by statement `step` of algebrize_select_query.
select_query_step(step, ast_node, plan) ==
    CASE step = "from" -> algebrize_from_clause(ast_node.from_clause)
      [] step = "where" ->
           algebrize_filter_clause(ast_node.where_clause, plan, "where")
      [] step = "group_by" ->
           algebrize_group_by_clause(ast_node.group_by_clause, plan)
      [] step = "having" ->
           algebrize_filter_clause(ast_node.having_clause, plan, "having")
      [] step = "select" ->
           algebrize_select_clause(ast_node.select_clause, plan)
      [] step = "order_by" ->
           algebrize_order_by_clause(ast_node.order_by_clause, plan)
      [] step = "offset" -> algebrize_offset_clause(ast_node.offset, plan)
      [] step = "limit" -> algebrize_limit_clause(ast_node.limit, plan)

notSel == <<dsg, res, jn, fnc, sq, la, sd, cg, sch>>

SelInit ==
    /\ sel = [pc |-> "idle"]
    /\ dsg = Off /\ res = Off /\ jn = Off /\ fnc = Off /\ sq = Off /\ la = Off
    /\ sd = Off /\ cg = Off /\ sch = Off

algebrize_select_query_call ==
    /\ sel.pc = "idle"
    /\ \E a \in SelectQueryAsts :
         sel' = [pc |-> "run", ast_node |-> a, i |-> 1, plan |-> <<>>,
                 log |-> <<>>, result |-> Err("none")]
    /\ UNCHANGED notSel

\* let plan = self.algebrize_<clause>(ast_node.<clause>, plan)?;
algebrize_select_query_stmt ==
    /\ sel.pc = "run"
    /\ sel.i <= Len(select_query_steps)
    /\ LET step == select_query_steps[sel.i]
           r == select_query_step(step, sel.ast_node, sel.plan)
           entry == [step |-> step, source |-> sel.plan]
       IN  sel' = IF r.ok
                    THEN [sel EXCEPT !.plan = r.val, !.i = sel.i + 1,
                                     !.log = Append(sel.log, entry)]
                    ELSE [sel EXCEPT !.pc = "done", !.result = r,
                                     !.log = Append(sel.log, entry)]
    /\ UNCHANGED notSel

\* Ok(plan)
algebrize_select_query_return ==
    /\ sel.pc = "run"
    /\ sel.i > Len(select_query_steps)
    /\ sel' = [sel EXCEPT !.pc = "done", !.result = Ok(sel.plan)]
    /\ UNCHANGED notSel

SelNext ==
    \/ algebrize_select_query_call
    \/ algebrize_select_query_stmt
    \/ algebrize_select_query_return

SpecSelect == SelInit /\ [][SelNext]_vars

\* The clause order required of a SELECT query, innermost node first.
ClauseOrder ==
    << "from", "where", "group_by", "having", "select", "order_by",
       "offset", "limit" >>

NodeKindOf(clause) ==
    CASE clause = "from" -> "Datasource"
      [] clause \in {"where", "having"} -> "Filter"
      [] clause = "group_by" -> "Group"
      [] clause = "select" -> "Project"
      [] clause = "order_by" -> "Sort"
      [] clause = "offset" -> "Offset"
      [] clause = "limit" -> "Limit"

\* The clause has an AST from which a node is to be built (SELECT * is a
\* present clause that builds no node).
ClauseBuildsNode(a, clause) ==
    CASE clause = "from" -> a.from_clause # "None"
      [] clause = "where" -> a.where_clause # "None"
      [] clause = "group_by" -> a.group_by_clause # "None"
      [] clause = "having" -> a.having_clause # "None"
      [] clause = "select" -> a.select_clause # "Star"
      [] clause = "order_by" -> a.order_by_clause # "None"
      [] clause = "offset" -> a.offset # "None"
      [] clause = "limit" -> a.limit # "None"

RECURSIVE ExpectedNesting(_, _)
ExpectedNesting(a, k) ==
    IF k > Len(ClauseOrder) THEN <<>>
    ELSE (IF ClauseBuildsNode(a, ClauseOrder[k])
            THEN <<[kind |-> NodeKindOf(ClauseOrder[k]), clause |-> ClauseOrder[k]]>>
            ELSE <<>>) \o ExpectedNesting(a, k + 1)

RECURSIVE PlanShape(_)
PlanShape(plan) ==
    IF plan = <<>> THEN <<>>
    ELSE <<[kind |-> plan[1].kind, clause |-> plan[1].clause]>> \o
         PlanShape(Tail(plan))

\* C2: algebrize_select_query algebrizes the clauses in the order FROM,
\* WHERE, GROUP BY, HAVING, SELECT, ORDER BY, OFFSET, LIMIT, each step
\* receiving the stage produced by the previous step as its source; a
\* successful result nests, innermost first, the FROM datasource, the WHERE
\* Filter, the Group, the HAVING Filter, the SELECT Project, the Sort, the
\* Offset and the Limit, with no node for an absent clause.
C2_ClauseOrder ==
    sel.pc \in {"run", "done"} =>
      /\ \A k \in 1..Len(sel.log) :
            /\ sel.log[k].step = ClauseOrder[k]
            /\ k > 1 => select_query_step(sel.log[k-1].step, sel.ast_node,
                                         sel.log[k-1].source)
                          = Ok(sel.log[k].source)
      /\ (sel.pc = "done" /\ sel.result.ok) =>
            /\ Len(sel.log) = Len(ClauseOrder)
            /\ PlanShape(sel.result.val) = ExpectedNesting(sel.ast_node, 1)

C2_Witness_AllClauses ==
    /\ sel.pc = "done"
    /\ sel.result.ok
    /\ Len(sel.result.val) = 8
    /\ sel.result.val[7].kind = "Offset"
    /\ sel.result.val[8].kind = "Limit"

(***************************************************************************)
(* algebrizer/definitions.rs : identifier resolution                       *)
(***************************************************************************)

\* Largest scope level of a key in the schema environment / of an Algebrizer.
MaxScope == 2

Scopes == 0..MaxScope

\* The named datasources that may be bound in the schema environment.
DatasourceNames == {"a", "b"}

\* Key = (datasource, scope)
Keys == DatasourceNames \X Scopes

\* The schema environment seen through the identifier being resolved: a key
\* is "Absent" from the environment, or bound to a schema whose
\* contains_field(identifier) is "Not", "May" or "Must".
SchemaEnvs == [Keys -> {"Absent", "Not", "May", "Must"}]

Reference(key) == [t |-> "Reference", key |-> key]
FieldAccess(expr, field) == [t |-> "FieldAccess", expr |-> expr, field |-> field]

\* The keys of scope `n` that are bound in the environment.
KeysAtScope(env, n) == {k \in Keys : k[2] = n /\ env[k] # "Absent"}

\* The fold of algebrize_unqualified_identifier_by_scope over one scope.
ScopeMusts(env, n) == {k \in KeysAtScope(env, n) : env[k] = "Must"}
ScopeMays(env, n) == {k \in KeysAtScope(env, n) : env[k] = "May"}

RECURSIVE algebrize_unqualified_identifier_by_scope(_, _, _)
algebrize_unqualified_identifier_by_scope_as(env, i, current_scope) ==
    LET musts == Cardinality(ScopeMusts(env, current_scope))
    IN  IF musts > 1 THEN Err([e |-> "AmbiguousField", arg |-> i])
        ELSE IF musts = 1
          THEN Ok(FieldAccess(
                    Reference(CHOOSE k \in ScopeMusts(env, current_scope) : TRUE), i))
        ELSE IF current_scope = 0 THEN Err([e |-> "unreachable", arg |-> i])
        ELSE algebrize_unqualified_identifier_by_scope(env, i, current_scope - 1)

algebrize_unqualified_identifier_by_scope(env, i, current_scope) ==
    LET musts == Cardinality(ScopeMusts(env, current_scope))
        mays == Cardinality(ScopeMays(env, current_scope))
    IN  IF musts > 1 \/ mays > 0 THEN Err([e |-> "AmbiguousField", arg |-> i])
        ELSE IF musts = 1
          THEN Ok(FieldAccess(
                    Reference(CHOOSE k \in ScopeMusts(env, current_scope) : TRUE), i))
        \* unreachable!() panics
        ELSE IF current_scope = 0 THEN Err([e |-> "unreachable", arg |-> i])
        ELSE algebrize_unqualified_identifier_by_scope(env, i, current_scope - 1)

algebrize_unqualified_identifier(env, scope_level, i) ==
    LET i_containing_datasources == {k \in Keys : env[k] \in {"May", "Must"}}
    IN  IF i_containing_datasources = {}
          THEN Err([e |-> "FieldNotFound", arg |-> i])
        ELSE IF Cardinality(i_containing_datasources) = 1
          THEN Ok(FieldAccess(
                    Reference(CHOOSE k \in i_containing_datasources : TRUE), i))
        ELSE algebrize_unqualified_identifier_by_scope(env, i, scope_level)

\* SchemaEnvironment::nearest_scope_for_datasource: the largest scope not
\* above `scope` at which `datasource` is bound; -1 stands for None.
RECURSIVE nearest_scope_for_datasource(_, _, _)
nearest_scope_for_datasource(env, datasource, scope) ==
    IF env[<<datasource, scope>>] # "Absent" THEN scope
    ELSE IF scope = 0 THEN -1
    ELSE nearest_scope_for_datasource(env, datasource, scope - 1)

algebrize_possibly_qualified_field_access_as(env, scope_level, q, field) ==
    LET scope == nearest_scope_for_datasource(env, q, scope_level)
        unq == algebrize_unqualified_identifier(env, scope_level, q)
    IN  IF unq.ok THEN Ok(FieldAccess(unq.val, field))
        ELSE IF scope = -1 THEN unq
        ELSE Ok(FieldAccess(Reference(<<q, scope>>), field))

algebrize_possibly_qualified_field_access(env, scope_level, q, field) ==
    LET scope == nearest_scope_for_datasource(env, q, scope_level)
    IN  IF scope = -1
          THEN LET unq == algebrize_unqualified_identifier(env, scope_level, q)
               IN  IF unq.ok THEN Ok(FieldAccess(unq.val, field)) ELSE unq
          ELSE Ok(FieldAccess(Reference(<<q, scope>>), field))

notRes == <<dsg, sel, jn, fnc, sq, la, sd, cg, sch>>

ResInit ==
    /\ res = [pc |-> "idle"]
    /\ dsg = Off /\ sel = Off /\ jn = Off /\ fnc = Off /\ sq = Off /\ la = Off
    /\ sd = Off /\ cg = Off /\ sch = Off

\* algebrize_expression on ast::Expression::Identifier("a") by an Algebrizer
\* built by with_schema_env(.., schema_env, .., scope_level).
algebrize_identifier ==
    /\ res.pc = "idle"
    /\ \E env \in SchemaEnvs, scope_level \in Scopes :
         res' = [pc |-> "done", op |-> "identifier", env |-> env,
                 scope_level |-> scope_level, i |-> "a",
                 result |-> algebrize_unqualified_identifier(env, scope_level, "a")]
    /\ UNCHANGED notRes

\* The resolution of the subpath a.b whose left side is the identifier a.
algebrize_subpath_identifier ==
    /\ res.pc = "idle"
    /\ \E env \in SchemaEnvs, scope_level \in Scopes :
         res' = [pc |-> "done", op |-> "subpath", env |-> env,
                 scope_level |-> scope_level, i |-> "a",
                 result |-> algebrize_possibly_qualified_field_access(
                                env, scope_level, "a", "b")]
    /\ UNCHANGED notRes

ResNext ==
    \/ algebrize_identifier
    \/ algebrize_subpath_identifier

SpecResolve == ResInit /\ [][ResNext]_vars

\* The datasources that may or must contain the identifier, over all scopes.
Containing(env) == {k \in Keys : env[k] \in {"May", "Must"}}

\* The first scope, from scope_level outward, that holds a datasource that
\* may or must contain the identifier; -1 when there is none.
FirstContainingScope(env, scope_level) ==
    LET hit == {n \in 0..scope_level : \E k \in Containing(env) : k[2] = n}
    IN  IF hit = {} THEN -1 ELSE CHOOSE n \in hit : \A m \in hit : m <= n

\* C3: algebrize_unqualified_identifier(i), C being the datasources that may
\* or must contain i: FieldNotFound(i) when C is empty; FieldAccess on the
\* only element of C when C is a singleton, whatever its scope and
\* satisfaction; otherwise, at the first scope from scope_level outward that
\* holds an element of C, FieldAccess on the single Must datasource of that
\* scope when it has exactly one Must and no May, and AmbiguousField(i)
\* otherwise.
C3_UnqualifiedIdentifier ==
    (res.pc = "done" /\ res.op = "identifier") =>
      LET C == Containing(res.env)
          n == FirstContainingScope(res.env, res.scope_level)
          Cn == {k \in C : k[2] = n}
      IN  /\ C = {} => res.result = Err([e |-> "FieldNotFound", arg |-> res.i])
          /\ Cardinality(C) = 1 =>
               \E k \in C : res.result = Ok(FieldAccess(Reference(k), res.i))
          /\ (Cardinality(C) > 1 /\ n # -1) =>
               IF Cardinality(Cn) = 1 /\ \A k \in Cn : res.env[k] = "Must"
                 THEN \E k \in Cn : res.result = Ok(FieldAccess(Reference(k), res.i))
                 ELSE res.result = Err([e |-> "AmbiguousField", arg |-> res.i])

\* Several candidates, an inner scope without any, and an outer scope with a
\* single Must: the by-scope scan descends and resolves.
C3_Witness_OuterScope ==
    /\ res.pc = "done" /\ res.op = "identifier"
    /\ Cardinality(Containing(res.env)) > 1
    /\ res.scope_level = 2
    /\ FirstContainingScope(res.env, res.scope_level) = 1
    /\ res.result.ok

C4_Witness_Unqualified ==
    /\ res.pc = "done" /\ res.op = "subpath"
    /\ \A n \in Scopes : res.env[<<"a", n>>] = "Absent"
    /\ res.result = Ok(FieldAccess(FieldAccess(Reference(<<"b", 0>>), "a"), "b"))

\* C27: for an Algebrizer built by with_schema_env from any schema
\* environment and scope_level, when two or more datasources may or must
\* contain the identifier, the scan from scope_level down to 0 returns
\* FieldAccess or AmbiguousField and never reaches unreachable!().
C27_NeverUnreachable ==
    (res.pc = "done" /\ res.op = "identifier"
       /\ Cardinality(Containing(res.env)) > 1) =>
      \/ res.result.ok
      \/ res.result = Err([e |-> "AmbiguousField", arg |-> res.i])

\* What holds of the code: the scan ends in FieldAccess or AmbiguousField
\* when some candidate lies at a scope not above scope_level.
ScanEndsWithinScope ==
    (res.pc = "done" /\ res.op = "identifier"
       /\ Cardinality(Containing(res.env)) > 1
       /\ FirstContainingScope(res.env, res.scope_level) # -1) =>
      \/ res.result.ok
      \/ res.result = Err([e |-> "AmbiguousField", arg |-> res.i])

\* Every candidate lies above scope_level: the scan reaches scope 0 without
\* a Must or May and panics.
ScanReachesUnreachable ==
    /\ res.pc = "done" /\ res.op = "identifier"
    /\ res.scope_level = 0
    /\ Cardinality(Containing(res.env)) = 2
    /\ \A k \in Containing(res.env) : k[2] = 1 /\ res.env[k] = "Must"
    /\ res.result = Err([e |-> "unreachable", arg |-> res.i])

(***************************************************************************)
(* algebrizer/definitions.rs : algebrize_datasource                        *)
(***************************************************************************)

\* ast::Datasource values.  A join condition is described by how it fares:
\*   "None"    no ON condition
\*   "Bool"    algebrizes; its schema is Boolean-or-nullish
\*   "NonBool" algebrizes (e.g. the literal 42) but is not Boolean-or-nullish
\*   "ExprErr" algebrize_expression fails on it
CollectionSource(collection, alias) ==
    [t |-> "Collection", collection |-> collection, alias |-> alias]
ArraySource(alias, literal) == [t |-> "Array", alias |-> alias, literal |-> literal]
JoinSource(join_type, left, right, condition) ==
    [t |-> "Join", join_type |-> join_type, left |-> left, right |-> right,
     condition |-> condition]

JoinTypes == {"Left", "Right", "Cross", "Inner"}
JoinConditions == {"None", "Bool", "NonBool", "ExprErr"}

LeafSources ==
    { CollectionSource("foo", "a"), CollectionSource("bar", "b"),
      CollectionSource("baz", "None"), ArraySource("a", TRUE) }

JoinSources1 ==
    { JoinSource(jt, l, r, c) :
        jt \in JoinTypes, l \in LeafSources, r \in LeafSources,
        c \in JoinConditions }

JoinSources2 ==
    { JoinSource(jt, l, r, c) :
        jt \in JoinTypes, l \in JoinSources1,
        r \in {CollectionSource("qux", "c")}, c \in JoinConditions }
    \cup
    { JoinSource(jt, l, r, c) :
        jt \in {"Right", "Inner"}, l \in {CollectionSource("qux", "c")},
        r \in JoinSources1, c \in {"None", "Bool"} }

Datasources == LeafSources \cup JoinSources1 \cup JoinSources2

\* ir::Stage values built by algebrize_datasource.
IrCollection(collection) == [t |-> "Collection", collection |-> collection]
IrProject(source, keys) == [t |-> "Project", source |-> source, keys |-> keys]
IrArray(alias, scope) == [t |-> "Array", alias |-> alias, scope |-> scope]
IrJoin(join_type, left, right, condition) ==
    [t |-> "Join", join_type |-> join_type, left |-> left, right |-> right,
     condition |-> condition]

\* Stage::schema for the stages above: the keys of the result set's
\* schema_env, or a schema error.  Join: the environments of both sides are
\* merged, a key bound on both sides is an error, and a condition must be
\* Boolean-or-nullish.
RECURSIVE StageSchema(_)
StageSchema(stage) ==
    CASE stage.t = "Project" -> Ok(stage.keys)
      [] stage.t = "Array" -> Ok({<<stage.alias, stage.scope>>})
      [] stage.t = "Join" ->
           LET l == StageSchema(stage.left)
               r == StageSchema(stage.right)
           IN  IF ~l.ok THEN l
               ELSE IF ~r.ok THEN r
               ELSE IF l.val \cap r.val # {} THEN Err("DuplicateKey")
               ELSE IF stage.condition = "NonBool" THEN Err("SchemaChecking")
               ELSE Ok(l.val \cup r.val)

\* The `match j.join_type` of the Join arm; `condition` is the algebrized
\* Option<Expression>.
join_arm_stage_as(join_type, left_src, right_src, condition) ==
    CASE join_type = "Left" ->
           IF condition = "None" THEN Err("NoOuterJoinCondition")
           ELSE Ok(IrJoin("Left", left_src, right_src, condition))
      [] join_type = "Right" ->
           IF condition = "None" THEN Err("NoOuterJoinCondition")
           ELSE Ok(IrJoin("Left", left_src, right_src, condition))
      [] OTHER -> Ok(IrJoin("Inner", left_src, right_src, condition))

join_arm_stage(join_type, left_src, right_src, condition) ==
    CASE join_type = "Left" ->
           IF condition = "None" THEN Err("NoOuterJoinCondition")
           ELSE Ok(IrJoin("Left", left_src, right_src, condition))
      [] join_type = "Right" ->
           IF condition = "None" THEN Err("NoOuterJoinCondition")
           ELSE Ok(IrJoin("Left", right_src, left_src, condition))
      [] OTHER -> Ok(IrJoin("Inner", left_src, right_src, condition))

\* algebrize_datasource by an Algebrizer with an empty schema environment.
RECURSIVE algebrize_datasource(_, _)
algebrize_datasource(ast_node, scope_level) ==
    CASE ast_node.t = "Array" ->
           IF ~ast_node.literal THEN Err("ArrayDatasourceMustBeLiteral")
           ELSE Ok(IrArray(ast_node.alias, scope_level))
      [] ast_node.t = "Collection" ->
           IF ast_node.alias = "None" THEN Err("CollectionMustHaveAlias")
           ELSE Ok(IrProject(IrCollection(ast_node.collection),
                             {<<ast_node.alias, scope_level>>}))
      [] ast_node.t = "Join" ->
           LET left_src == algebrize_datasource(ast_node.left, scope_level)
               right_src == algebrize_datasource(ast_node.right, scope_level)
           IN  IF ~left_src.ok THEN left_src
               ELSE IF ~right_src.ok THEN right_src
               ELSE
               LET left_src_result_set == StageSchema(left_src.val)
                   right_src_result_set == StageSchema(right_src.val)
               IN  IF ~left_src_result_set.ok THEN Err("SchemaChecking")
                   ELSE IF ~right_src_result_set.ok THEN Err("SchemaChecking")
                   \* with_merged_mappings(left)?.with_merged_mappings(right)?
                   ELSE IF left_src_result_set.val \cap right_src_result_set.val # {}
                     THEN Err("DuplicateKey")
                   \* j.condition.map(algebrize_expression).transpose()?
                   ELSE IF ast_node.condition = "ExprErr" THEN Err("ExprError")
                   \* condition.clone().map(|e| e.schema(..)) : value dropped
                   ELSE join_arm_stage(ast_node.join_type, left_src.val,
                                       right_src.val, ast_node.condition)

notJn == <<dsg, sel, res, fnc, sq, la, sd, cg, sch>>

JnInit ==
    /\ jn = [pc |-> "idle"]
    /\ dsg = Off /\ sel = Off /\ res = Off /\ fnc = Off /\ sq = Off /\ la = Off
    /\ sd = Off /\ cg = Off /\ sch = Off

algebrize_datasource_call ==
    /\ jn.pc = "idle"
    /\ \E d \in Datasources, scope_level \in Scopes :
         jn' = [pc |-> "done", ast_node |-> d, scope_level |-> scope_level,
                result |-> algebrize_datasource(d, scope_level)]
    /\ UNCHANGED notJn

JnNext == algebrize_datasource_call

SpecDatasource == JnInit /\ [][JnNext]_vars

\* C5: every algebrizer step that builds an IR node runs schema inference on
\* it and returns any schema error: a stage returned by algebrize_datasource
\* passes schema inference, so a Join whose ON condition is not
\* Boolean-or-nullish is never returned as Ok(Join).
C5_JoinSchemaChecked ==
    /\ (jn.pc = "done" /\ jn.ast_node.t = "Join"
          /\ jn.ast_node.condition = "NonBool") => ~jn.result.ok
    /\ (jn.pc = "done" /\ jn.result.ok) => StageSchema(jn.result.val).ok

RECURSIVE NoRightJoin(_)
NoRightJoin(stage) ==
    stage.t = "Join" =>
      /\ stage.join_type \in {"Inner", "Left"}
      /\ NoRightJoin(stage.left)
      /\ NoRightJoin(stage.right)

\* C6: algebrize_datasource on a join whose operands algebrize to L and R
\* (with disjoint keys): LEFT or RIGHT without a condition yields
\* NoOuterJoinCondition; LEFT yields Join(Left, L, R); RIGHT yields
\* Join(Left, R, L); CROSS and INNER yield Join(Inner, L, R) with the
\* condition, present or absent, kept.  No IR Join has a Right type.
C6_JoinLowering ==
    (jn.pc = "done" /\ jn.ast_node.t = "Join") =>
      LET j == jn.ast_node
          L == algebrize_datasource(j.left, jn.scope_level)
          R == algebrize_datasource(j.right, jn.scope_level)
          operands_ok ==
            /\ L.ok /\ R.ok
            /\ StageSchema(L.val).ok /\ StageSchema(R.val).ok
            /\ StageSchema(L.val).val \cap StageSchema(R.val).val = {}
      IN  /\ (operands_ok /\ j.join_type \in {"Left", "Right"}
                /\ j.condition = "None")
               => jn.result = Err("NoOuterJoinCondition")
          /\ (jn.result.ok /\ j.join_type = "Left")
               => jn.result.val = IrJoin("Left", L.val, R.val, j.condition)
          /\ (jn.result.ok /\ j.join_type = "Right")
               => jn.result.val = IrJoin("Left", R.val, L.val, j.condition)
          /\ (jn.result.ok /\ j.join_type \in {"Cross", "Inner"})
               => jn.result.val = IrJoin("Inner", L.val, R.val, j.condition)
          /\ (operands_ok /\ j.join_type \in {"Cross", "Inner"}
                /\ j.condition # "ExprErr")
               => jn.result.ok
          /\ (operands_ok /\ j.join_type \in {"Left", "Right"}
                /\ j.condition \in {"Bool", "NonBool"})
               => jn.result.ok
          /\ jn.result.ok => NoRightJoin(jn.result.val)

\* A RIGHT join with a condition whose left operand is itself a join.
C6_Witness_RightSwapped ==
    /\ jn.pc = "done" /\ jn.result.ok
    /\ jn.ast_node.t = "Join" /\ jn.ast_node.join_type = "Right"
    /\ jn.ast_node.right.t = "Join"
    /\ jn.result.val.left.t = "Join"
    /\ jn.result.val.right.t = "Project"

(***************************************************************************)
(* algebrizer/definitions.rs : algebrize_function, algebrize_aggregation   *)
(***************************************************************************)

\* Longest argument list of a function expression.
MaxArgs == 2

\* ast::FunctionName, split as by the two TryFrom implementations.
ScalarFunctionNames ==
    { "BitLength", "CharLength", "Coalesce", "CurrentTimestamp", "Lower",
      "NullIf", "OctetLength", "Position", "Size", "Slice", "Substring",
      "Upper" }

AggregationFunctionNames ==
    { "AddToArray", "AddToSet", "Avg", "Count", "First", "Last", "Max",
      "MergeDocuments", "Min", "StddevPop", "StddevSamp", "Sum" }

FunctionNames == ScalarFunctionNames \cup AggregationFunctionNames

\* TryFrom<ast::FunctionName> for ir::ScalarFunction
ScalarFunction_try_from(f) ==
    IF f \in ScalarFunctionNames THEN Ok(f)
    ELSE Err([e |-> "AggregationInPlaceOfScalar", arg |-> f])

\* TryFrom<ast::FunctionName> for ir::AggregationFunction
AggregationFunction_try_from(f) ==
    IF f = "AddToSet" THEN Err([e |-> "AddToSetDoesNotExistInIr", arg |-> f])
    ELSE IF f \in AggregationFunctionNames THEN Ok(f)
    ELSE Err([e |-> "ScalarInPlaceOfAggregation", arg |-> f])

\* ast::FunctionArguments: Star, or Args(ve) where each argument is "Ok"
\* (algebrize_expression succeeds) or "ExprErr" (it fails).
Star == [t |-> "Star"]
Args(ve) == [t |-> "Args", ve |-> ve]

RECURSIVE SeqsUpTo(_, _)
SeqsUpTo(S, n) ==
    IF n = 0 THEN {<<>>}
    ELSE SeqsUpTo(S, n - 1) \cup
         {Append(q, x) : q \in {r \in SeqsUpTo(S, n - 1) : Len(r) = n - 1}, x \in S}

FunctionArguments == {Star} \cup {Args(ve) : ve \in SeqsUpTo({"Ok", "ExprErr"}, MaxArgs)}

\* ast::FunctionExpr; schema_ok tells whether the ir node built from the
\* expression passes schema inference.
FunctionExprs ==
    [function : FunctionNames,
     args : FunctionArguments,
     set_quantifier : {"None", "All", "Distinct"},
     schema_ok : BOOLEAN]

\* args.into_iter().map(algebrize_expression).collect::<Result<_>>()
AlgebrizeArgs(ve) ==
    IF \E k \in 1..Len(ve) : ve[k] = "ExprErr"
      THEN Err([e |-> "ExprError", arg |-> ""])
      ELSE Ok(ve)

algebrize_function(f) ==
    IF f.set_quantifier = "Distinct"
      THEN Err([e |-> "DistinctScalarFunction", arg |-> ""])
    ELSE IF f.args.t = "Star" THEN Err([e |-> "StarInNonCount", arg |-> ""])
    ELSE LET function == ScalarFunction_try_from(f.function)
             args == AlgebrizeArgs(f.args.ve)
         IN  IF ~function.ok THEN function
             ELSE IF ~args.ok THEN args
             ELSE IF ~f.schema_ok THEN Err([e |-> "SchemaChecking", arg |-> ""])
             ELSE Ok([t |-> "ScalarFunction", function |-> function.val,
                      args |-> args.val])

CountStar(distinct) == [t |-> "CountStar", distinct |-> distinct]
AggregationFunctionApplication(function, distinct) ==
    [t |-> "Function", function |-> function, distinct |-> distinct]

\* let (distinct, function) = ...
aggregation_distinct_function_as(f) ==
    [distinct |-> f.set_quantifier = "Distinct",
     function |-> IF f.function = "AddToSet" THEN "AddToArray" ELSE f.function]

aggregation_distinct_function(f) ==
    IF f.function = "AddToSet"
      THEN [distinct |-> TRUE, function |-> "AddToArray"]
      ELSE [distinct |-> f.set_quantifier = "Distinct", function |-> f.function]

\* CountStar has no operand, so its schema inference does not fail.
algebrize_aggregation(f) ==
    LET df == aggregation_distinct_function(f)
    IN  IF f.args.t = "Star"
          THEN IF f.function = "Count" THEN Ok(CountStar(df.distinct))
               ELSE Err([e |-> "StarInNonCount", arg |-> ""])
        ELSE LET function == AggregationFunction_try_from(df.function)
             IN  IF ~function.ok THEN function
                 ELSE IF Len(f.args.ve) # 1
                   THEN Err([e |-> "AggregationFunctionMustHaveOneArgument",
                             arg |-> ""])
                 ELSE IF ~AlgebrizeArgs(f.args.ve).ok THEN AlgebrizeArgs(f.args.ve)
                 ELSE IF ~f.schema_ok THEN Err([e |-> "SchemaChecking", arg |-> ""])
                 ELSE Ok(AggregationFunctionApplication(function.val, df.distinct))

notFnc == <<dsg, sel, res, jn, sq, la, sd, cg, sch>>

FncInit ==
    /\ fnc = [pc |-> "idle"]
    /\ dsg = Off /\ sel = Off /\ res = Off /\ jn = Off /\ sq = Off /\ la = Off
    /\ sd = Off /\ cg = Off /\ sch = Off

\* algebrize_expression(ast::Expression::Function(f)): scalar position
algebrize_function_call ==
    /\ fnc.pc = "idle"
    /\ \E f \in FunctionExprs :
         fnc' = [pc |-> "done", position |-> "scalar", f |-> f,
                 result |-> algebrize_function(f)]
    /\ UNCHANGED notFnc

\* algebrize_group_by_clause on an aggregation list entry: aggregation position
algebrize_aggregation_call ==
    /\ fnc.pc = "idle"
    /\ \E f \in FunctionExprs :
         fnc' = [pc |-> "done", position |-> "aggregation", f |-> f,
                 result |-> algebrize_aggregation(f)]
    /\ UNCHANGED notFnc

FncNext ==
    \/ algebrize_function_call
    \/ algebrize_aggregation_call

SpecFunction == FncInit /\ [][FncNext]_vars

\* C7: an aggregation function in scalar position yields
\* AggregationInPlaceOfScalar(name) for every aggregation function name,
\* whatever its arguments and set quantifier; a scalar function in
\* aggregation position yields ScalarInPlaceOfAggregation(name) for every
\* scalar function name.
C7_WrongPositionError ==
    fnc.pc = "done" =>
      /\ (fnc.position = "scalar" /\ fnc.f.function \in AggregationFunctionNames)
           => fnc.result = Err([e |-> "AggregationInPlaceOfScalar",
                                arg |-> fnc.f.function])
      /\ (fnc.position = "aggregation" /\ fnc.f.function \in ScalarFunctionNames)
           => fnc.result = Err([e |-> "ScalarInPlaceOfAggregation",
                                arg |-> fnc.f.function])

\* C8: algebrize_aggregation: COUNT(*) yields CountStar(distinct) with
\* distinct true iff DISTINCT was given; `*` in any other function yields
\* StarInNonCount; an aggregation function whose argument list does not have
\* exactly one element yields AggregationFunctionMustHaveOneArgument;
\* ADDTOSET(x) yields AddToArray with distinct = true whatever the set
\* quantifier, and AddToSet never appears in the IR.
C8_Aggregation ==
    (fnc.pc = "done" /\ fnc.position = "aggregation") =>
      LET f == fnc.f
      IN  /\ (f.function = "Count" /\ f.args.t = "Star")
               => fnc.result = Ok(CountStar(f.set_quantifier = "Distinct"))
          /\ (f.function # "Count" /\ f.args.t = "Star")
               => fnc.result = Err([e |-> "StarInNonCount", arg |-> ""])
          /\ (f.function \in AggregationFunctionNames /\ f.args.t = "Args"
                /\ Len(f.args.ve) # 1)
               => fnc.result =
                    Err([e |-> "AggregationFunctionMustHaveOneArgument", arg |-> ""])
          /\ (f.function = "AddToSet" /\ f.args = Args(<<"Ok">>) /\ f.schema_ok)
               => fnc.result = Ok(AggregationFunctionApplication("AddToArray", TRUE))
          /\ (fnc.result.ok /\ fnc.result.val.t = "Function")
               => fnc.result.val.function \in AggregationFunctionNames \ {"AddToSet"}

C8_Witness_AddToSet ==
    /\ fnc.pc = "done" /\ fnc.position = "aggregation"
    /\ fnc.f.function = "AddToSet" /\ fnc.f.set_quantifier = "All"
    /\ fnc.result = Ok(AggregationFunctionApplication("AddToArray", TRUE))

C8_Witness_CountStar ==
    /\ fnc.pc = "done" /\ fnc.position = "aggregation"
    /\ fnc.f.function = "Count" /\ fnc.f.args.t = "Star"
    /\ fnc.f.set_quantifier = "Distinct"
    /\ fnc.result = Ok(CountStar(TRUE))

(***************************************************************************)
(* algebrizer/definitions.rs : algebrize_subquery_expr                     *)
(***************************************************************************)

\* Datasource names a subquery's result set may bind ("Bot" is Bottom).
ResultDatasources == {"Bot", "t", "u"}

\* The schema a result-set key is bound to: a document schema given by its
\* set of fields, or a schema that is not a document.
FieldNames == {"x", "y"}
DocumentSchema(fields) == [t |-> "Document", fields |-> fields]
NonDocumentSchema == [t |-> "Atomic", fields |-> {}]
ResultSchemas == {DocumentSchema(fs) : fs \in SUBSET FieldNames} \cup {NonDocumentSchema}

NotBound == [t |-> "NotBound", fields |-> {}]

\* An inner ast::Query, described by what algebrizing it gives: an
\* algebrizer error, a stage whose schema inference fails, or a stage whose
\* result set binds the given datasources at the scope of the algebrizer
\* that algebrized it.
InnerQueries ==
    {[outcome |-> o, binds |-> [d \in ResultDatasources |-> NotBound]] :
        o \in {"AlgebrizeErr", "SchemaErr"}}
    \cup
    {[outcome |-> "Ok", binds |-> b] :
        b \in [ResultDatasources -> ResultSchemas \cup {NotBound}]}

\* Algebrizer::new: the default (empty) schema environment.
EmptySchemaEnv == [k \in Keys |-> "Absent"]
Algebrizer(schema_env, scope_level) ==
    [schema_env |-> schema_env, scope_level |-> scope_level]
Algebrizer_new(scope_level) == Algebrizer(EmptySchemaEnv, scope_level)

\* Algebrizer::subquery_algebrizer: the other fields are copied.
subquery_algebrizer_as(self) == Algebrizer_new(self.scope_level + 1)

subquery_algebrizer(self) == [self EXCEPT !.scope_level = self.scope_level + 1]

\* algebrize_query on an inner query, and the schema of its stage.
algebrize_query(self, ast_node) ==
    IF ast_node.outcome = "AlgebrizeErr" THEN Err("QueryError")
    ELSE Ok([t |-> "Query", ast_node |-> ast_node, scope |-> self.scope_level])

\* Stage::schema(..).schema_env of an algebrized inner query: the set of
\* bound keys, each with its schema.
QuerySchemaEnv(stage) ==
    {[key |-> <<d, stage.scope>>, schema |-> stage.ast_node.binds[d]] :
        d \in {n \in ResultDatasources : stage.ast_node.binds[n] # NotBound}}

\* Schema::get_single_field_name: the field of a document schema that has
\* exactly one field; "" stands for None.
get_single_field_name(schema) ==
    IF schema.t = "Document" /\ Cardinality(schema.fields) = 1
      THEN CHOOSE f \in schema.fields : TRUE
      ELSE ""

SubqueryExpr(output_expr, subquery) ==
    [t |-> "SubqueryExpr", output_expr |-> output_expr, subquery |-> subquery]

algebrize_subquery_expr_as(self, ast_node) ==
    LET subquery_algebrizer_ == subquery_algebrizer(self)
        subquery == algebrize_query(subquery_algebrizer_, ast_node)
    IN  IF ~subquery.ok THEN subquery
        ELSE IF ast_node.outcome = "SchemaErr" THEN Err("SchemaChecking")
        ELSE LET schema_env == QuerySchemaEnv(subquery.val)
             IN  IF Cardinality(schema_env) >= 1
                   THEN LET b == CHOOSE x \in schema_env :
                                   \A y \in schema_env :
                                      get_single_field_name(y.schema) # ""
                                        => get_single_field_name(x.schema) # ""
                            field == get_single_field_name(b.schema)
                        IN  IF field = "" THEN Err("InvalidSubqueryDegree")
                            ELSE Ok(SubqueryExpr(
                                      FieldAccess(Reference(b.key), field),
                                      subquery.val))
                   ELSE Err("InvalidSubqueryDegree")

algebrize_subquery_expr(self, ast_node) ==
    LET subquery_algebrizer_ == subquery_algebrizer(self)
        subquery == algebrize_query(subquery_algebrizer_, ast_node)
    IN  IF ~subquery.ok THEN subquery
        \* subquery.schema(&subquery_algebrizer.schema_inference_state())?
        ELSE IF ast_node.outcome = "SchemaErr" THEN Err("SchemaChecking")
        ELSE LET schema_env == QuerySchemaEnv(subquery.val)
             IN  IF Cardinality(schema_env) = 1
                   THEN LET b == CHOOSE x \in schema_env : TRUE
                            field == get_single_field_name(b.schema)
                        IN  IF field = "" THEN Err("InvalidSubqueryDegree")
                            ELSE Ok(SubqueryExpr(
                                      FieldAccess(Reference(b.key), field),
                                      subquery.val))
                   ELSE Err("InvalidSubqueryDegree")

notSq == <<dsg, sel, res, jn, fnc, la, sd, cg, sch>>

SqInit ==
    /\ sq = [pc |-> "idle"]
    /\ dsg = Off /\ sel = Off /\ res = Off /\ jn = Off /\ fnc = Off /\ la = Off
    /\ sd = Off /\ cg = Off /\ sch = Off

algebrize_subquery_expr_call ==
    /\ sq.pc = "idle"
    /\ \E q \in InnerQueries, scope_level \in Scopes :
         sq' = [pc |-> "done", self |-> [scope_level |-> scope_level],
                ast_node |-> q,
                result |-> algebrize_subquery_expr([scope_level |-> scope_level], q)]
    /\ UNCHANGED notSq

SqNext == algebrize_subquery_expr_call

SpecSubquery == SqInit /\ [][SqNext]_vars

\* C9: algebrize_subquery_expr algebrizes the inner query at scope_level+1;
\* when the inner query algebrizes and schema-checks, the result is
\* InvalidSubqueryDegree unless its result environment has exactly one
\* datasource whose schema has exactly one field, and then it is
\* SubqueryExpr{FieldAccess(Reference(that key), that field), subquery} with
\* the key and the subquery at scope_level+1.
C9_SubqueryDegree ==
    (sq.pc = "done" /\ sq.ast_node.outcome = "Ok") =>
      LET bound == {d \in ResultDatasources : sq.ast_node.binds[d] # NotBound}
          degree1 ==
            /\ Cardinality(bound) = 1
            /\ \A d \in bound :
                 /\ sq.ast_node.binds[d].t = "Document"
                 /\ Cardinality(sq.ast_node.binds[d].fields) = 1
      IN  IF degree1
            THEN \E d \in bound, f \in FieldNames :
                   /\ sq.ast_node.binds[d].fields = {f}
                   /\ sq.result.ok
                   /\ sq.result.val.output_expr =
                        FieldAccess(Reference(<<d, sq.self.scope_level + 1>>), f)
                   /\ sq.result.val.subquery.scope = sq.self.scope_level + 1
                   /\ sq.result.val.subquery.ast_node = sq.ast_node
            ELSE sq.result = Err("InvalidSubqueryDegree")

C9_Witness_Degree1 ==
    /\ sq.pc = "done" /\ sq.result.ok
    /\ sq.self.scope_level = 1
    /\ sq.result.val.output_expr = FieldAccess(Reference(<<"Bot", 2>>), "x")

\* SELECT (SELECT f.a, f.b FROM foo f): one datasource with two fields.
C9_Witness_TwoFields ==
    /\ sq.pc = "done" /\ sq.ast_node.outcome = "Ok"
    /\ sq.ast_node.binds["Bot"] = DocumentSchema({"x", "y"})
    /\ sq.ast_node.binds["t"] = NotBound /\ sq.ast_node.binds["u"] = NotBound
    /\ sq.result = Err("InvalidSubqueryDegree")

\* Nested queries.  The inner query is SELECT VALUE {'v': x} FROM [..] AS b:
\* its FROM clause binds (b, scope of its algebrizer) and from_sat tells
\* whether b's schema contains the field x; the identifier x is then
\* resolved in the algebrizer's environment merged with that binding.
NestedQueries == {[from_sat |-> sat] : sat \in {"Not", "May", "Must"}}

MergeObjects(args) == [t |-> "ScalarFunction", function |-> "MergeObjects",
                       args |-> args]

\* algebrize_query on such a query: algebrize_from_clause, with_merged_mappings
\* of the source's schema environment, then the SELECT clause.
algebrize_nested_query(self, q) ==
    LET own == <<"b", self.scope_level>>
    IN  IF self.schema_env[own] # "Absent"
          THEN Err([e |-> "DuplicateKey", arg |-> <<own>>])
          ELSE LET env == [self.schema_env EXCEPT ![own] = q.from_sat]
                   value == algebrize_unqualified_identifier(
                              env, self.scope_level, <<"x">>)
               IN  IF ~value.ok THEN value
                   ELSE Ok([t |-> "Project",
                            source |-> IrArray("b", self.scope_level),
                            keys |-> {<<"Bot", self.scope_level>>},
                            expression |-> value.val])

\* algebrize_datasource, Derived arm.
algebrize_derived_datasource(self, d) ==
    LET derived_algebrizer == Algebrizer_new(self.scope_level + 1)
        src == algebrize_nested_query(derived_algebrizer, d.query)
    IN  IF ~src.ok THEN src
        ELSE Ok([t |-> "Project", source |-> src.val,
                 keys |-> {<<d.alias, self.scope_level>>},
                 expression |-> MergeObjects({Reference(k) : k \in src.val.keys})])

\* algebrize_exists
algebrize_exists(self, ast_node) ==
    LET exists == algebrize_nested_query(subquery_algebrizer(self), ast_node)
    IN  IF ~exists.ok THEN exists
        ELSE Ok([t |-> "Exists", stage |-> exists.val])

\* The enclosing algebrizers: any environment over the keys, at a scope
\* that leaves room for one nested scope.
NestedEnvs == [Keys -> {"Absent", "Must"}]

NestedInit ==
    /\ sq = [pc |-> "new"]
    /\ dsg = Off /\ sel = Off /\ res = Off /\ jn = Off /\ fnc = Off /\ la = Off
    /\ sd = Off /\ cg = Off /\ sch = Off

with_schema_env_call ==
    /\ sq.pc = "new"
    /\ \E env \in NestedEnvs, scope_level \in 0..(MaxScope - 1) :
         sq' = [pc |-> "ready", self |-> Algebrizer(env, scope_level)]
    /\ UNCHANGED notSq

algebrize_derived_datasource_call ==
    /\ sq.pc = "ready"
    /\ \E q \in NestedQueries :
         LET d == [t |-> "Derived", query |-> q, alias |-> "d"]
         IN  sq' = [pc |-> "derived", self |-> sq.self, ast_node |-> d,
                    result |-> algebrize_derived_datasource(sq.self, d)]
    /\ UNCHANGED notSq

algebrize_exists_call ==
    /\ sq.pc = "ready"
    /\ \E q \in NestedQueries :
         sq' = [pc |-> "exists", self |-> sq.self, ast_node |-> q,
                result |-> algebrize_exists(sq.self, q)]
    /\ UNCHANGED notSq

NestedNext ==
    \/ with_schema_env_call
    \/ algebrize_derived_datasource_call
    \/ algebrize_exists_call

SpecNested == NestedInit /\ [][NestedNext]_vars

\* What the inner query's identifier x resolves to in the environment
\* `env` once the query's own datasource b is bound one scope deeper.
NestedResolution(env, from_sat) ==
    algebrize_unqualified_identifier(
      [env EXCEPT ![<<"b", sq.self.scope_level + 1>>] = from_sat],
      sq.self.scope_level + 1, <<"x">>)

\* The results of the two calls, stated over the recorded call.
NestedScopesAt ==
    /\ sq.pc = "derived" =>
         LET r == NestedResolution(EmptySchemaEnv, sq.ast_node.query.from_sat)
         IN  /\ sq.result.ok = r.ok
             /\ ~r.ok => sq.result = r
             /\ r.ok =>
                  /\ sq.result.val.keys = {<<"d", sq.self.scope_level>>}
                  /\ sq.result.val.source.expression = r.val
                  /\ sq.result.val.source.expression.expr.key[2]
                       = sq.self.scope_level + 1
                  /\ sq.result.val.source.keys
                       = {<<"Bot", sq.self.scope_level + 1>>}
             /\ sq.ast_node.query.from_sat = "Not" =>
                  sq.result = Err([e |-> "FieldNotFound", arg |-> <<"x">>])
    /\ sq.pc = "exists" =>
         IF sq.self.schema_env[<<"b", sq.self.scope_level + 1>>] # "Absent"
           THEN ~sq.result.ok /\ sq.result.err.e = "DuplicateKey"
           ELSE LET r == NestedResolution(sq.self.schema_env, sq.ast_node.from_sat)
                IN  /\ sq.result.ok = r.ok
                    /\ ~r.ok => sq.result = r
                    /\ r.ok =>
                         /\ sq.result.val.stage.expression = r.val
                         /\ sq.result.val.stage.keys
                              = {<<"Bot", sq.self.scope_level + 1>>}

\* The enclosing algebrizer is the same before and after either call.
ParentUnchanged == sq.pc = "ready" => sq'.self = sq.self

\* C28: a derived table is algebrized at scope_level+1 in an empty schema
\* environment (the enclosing datasources do not resolve in it) and bound
\* under (alias, scope_level); the query of a subquery expression is
\* algebrized at scope_level+1 in a copy of the enclosing environment; the
\* enclosing algebrizer's scope_level and schema_env are unchanged.
C28_NestedScopes == []NestedScopesAt /\ [][ParentUnchanged]_vars

\* The derived table cannot see the enclosing datasource a that must
\* contain x, the EXISTS subquery can.
C28_Witness_DerivedIsolated ==
    /\ sq.pc = "derived"
    /\ sq.self.scope_level = 1
    /\ sq.self.schema_env = [EmptySchemaEnv EXCEPT ![<<"a", 1>>] = "Must"]
    /\ sq.ast_node.query.from_sat = "Not"
    /\ sq.result = Err([e |-> "FieldNotFound", arg |-> <<"x">>])

C28_Witness_DerivedBound ==
    /\ sq.pc = "derived"
    /\ sq.self.scope_level = 1
    /\ sq.self.schema_env = [EmptySchemaEnv EXCEPT ![<<"a", 1>>] = "Must"]
    /\ sq.ast_node.query.from_sat = "Must"
    /\ sq.result.ok
    /\ sq.result.val.keys = {<<"d", 1>>}
    /\ sq.result.val.source.expression
         = FieldAccess(Reference(<<"b", 2>>), <<"x">>)

C28_Witness_SubqueryInherits ==
    /\ sq.pc = "exists"
    /\ sq.self.scope_level = 1
    /\ sq.self.schema_env = [EmptySchemaEnv EXCEPT ![<<"a", 1>>] = "Must"]
    /\ sq.ast_node.from_sat = "Not"
    /\ sq.result.ok
    /\ sq.result.val.stage.expression
         = FieldAccess(Reference(<<"a", 1>>), <<"x">>)

\* SELECT VALUE bodies.  A list item is a plain expression, which either
\* fails to algebrize ("Err"), algebrizes to a document ("Document") or to
\* something that is not a document ("Scalar"), or a substar a.*.
MaxExprs == 3

SelectValuesExpressions ==
    {[t |-> "Expression", e |-> e] : e \in {"Err", "Document", "Scalar"}}
      \cup {[t |-> "Substar", datasource |-> d] : d \in DatasourceNames}

SelectValuesBodies ==
    UNION {[1..n -> SelectValuesExpressions] : n \in 0..MaxExprs}

\* The source stage of the body: its schema inference fails, or it binds
\* the datasources `names` at the scope of the algebrizer.
SelectValuesSources ==
    {[ok |-> FALSE]} \cup
      {[ok |-> TRUE, names |-> names] : names \in SUBSET DatasourceNames}

\* The correlated environments: at most one enclosing binding.
SelectValuesEnvs ==
    {EmptySchemaEnv} \cup {[EmptySchemaEnv EXCEPT ![k] = "Must"] : k \in Keys}

\* Algebrizer::with_merged_mappings
Algebrizer_with_merged_mappings(self, mappings) ==
    IF \E k \in mappings : self.schema_env[k] # "Absent"
      THEN Err([e |-> "DuplicateKey",
                key |-> CHOOSE k \in mappings : self.schema_env[k] # "Absent"])
      ELSE Ok([self EXCEPT !.schema_env =
                 [k \in Keys |-> IF k \in mappings THEN "Must" ELSE @[k]]])

\* The closure mapped over exprs: one item against the keys seen so far.
select_values_binding_as(expression_algebrizer, expr, datasources) ==
    IF expr.t = "Expression"
      THEN IF expr.e = "Err" THEN Err([e |-> "ExprError"])
           ELSE Ok([key |-> <<"Bot", expression_algebrizer.scope_level>>,
                    value |-> [t |-> "Expression", e |-> expr.e]])
      ELSE LET key == <<expr.datasource, expression_algebrizer.scope_level>>
               scope == nearest_scope_for_datasource(
                          expression_algebrizer.schema_env, expr.datasource,
                          expression_algebrizer.scope_level)
           IN  IF key \in datasources
                 THEN Err([e |-> "DuplicateKey", key |-> key])
               ELSE IF scope = -1
                 THEN Err([e |-> "NoSuchDatasource", datasource |-> expr.datasource])
               ELSE Ok([key |-> key,
                        value |-> Reference(<<expr.datasource, scope>>)])

select_values_binding(expression_algebrizer, expr, datasources) ==
    IF expr.t = "Expression"
      THEN LET bot == <<"Bot", expression_algebrizer.scope_level>>
           IN  IF expr.e = "Err" THEN Err([e |-> "ExprError"])
               ELSE IF bot \in datasources
                 THEN Err([e |-> "DuplicateKey", key |-> bot])
               ELSE Ok([key |-> bot,
                        value |-> [t |-> "Expression", e |-> expr.e]])
      ELSE LET key == <<expr.datasource, expression_algebrizer.scope_level>>
               scope == nearest_scope_for_datasource(
                          expression_algebrizer.schema_env, expr.datasource,
                          expression_algebrizer.scope_level)
           IN  IF key \in datasources
                 THEN Err([e |-> "DuplicateKey", key |-> key])
               ELSE IF scope = -1
                 THEN Err([e |-> "NoSuchDatasource", datasource |-> expr.datasource])
               ELSE Ok([key |-> key,
                        value |-> Reference(<<expr.datasource, scope>>)])

\* exprs.into_iter().map(..).collect::<Result<_>>(): the bindings in list
\* order, or the error of the first item that fails.
RECURSIVE select_values_expression(_, _, _, _)
select_values_expression(expression_algebrizer, exprs, datasources, expression) ==
    IF exprs = <<>> THEN Ok(expression)
    ELSE LET b == select_values_binding(expression_algebrizer, Head(exprs),
                                        datasources)
         IN  IF ~b.ok THEN b
             ELSE select_values_expression(
                    expression_algebrizer, Tail(exprs),
                    datasources \cup {b.val.key}, Append(expression, b.val))

\* Project's schema inference: every bound value must be a document.
project_schema_ok(expression) ==
    \A i \in 1..Len(expression) :
      expression[i].value.t = "Expression" => expression[i].value.e = "Document"

\* Algebrizer::algebrize_select_values_body with its bindings spelt out.
select_values_body(self, exprs, source) ==
    IF ~source.ok THEN Err([e |-> "SchemaChecking"])
    ELSE
      LET merged == Algebrizer_with_merged_mappings(
                      self, {<<d, self.scope_level>> : d \in source.names})
      IN  IF ~merged.ok THEN merged
          ELSE LET expression == select_values_expression(merged.val, exprs, {}, <<>>)
               IN  IF ~expression.ok THEN expression
                   ELSE IF ~project_schema_ok(expression.val)
                     THEN Err([e |-> "SchemaChecking"])
                   ELSE Ok([t |-> "Project", source |-> source,
                            expression |-> expression.val])

SelectValuesInit ==
    /\ sel = [pc |-> "values"]
    /\ dsg = Off /\ res = Off /\ jn = Off /\ fnc = Off /\ sq = Off /\ la = Off
    /\ sd = Off /\ cg = Off /\ sch = Off

algebrize_select_values_body_call ==
    /\ sel.pc = "values"
    /\ \E env \in SelectValuesEnvs, scope_level \in Scopes,
          exprs \in SelectValuesBodies, source \in SelectValuesSources :
         LET self == Algebrizer(env, scope_level)
         IN  sel' = [pc |-> "values_done", self |-> self, exprs |-> exprs,
                     source |-> source,
                     result |-> select_values_body(self, exprs, source)]
    /\ UNCHANGED notSel

SelectValuesNext == algebrize_select_values_body_call

SpecSelectValues == SelectValuesInit /\ [][SelectValuesNext]_vars

\* The body reached the construction of the binding tuple: the source
\* schema-checks and its bindings merge into the algebrizer's environment.
TupleIsBuilt ==
    /\ sel.pc = "values_done"
    /\ sel.source.ok
    /\ \A d \in sel.source.names :
         sel.self.schema_env[<<d, sel.self.scope_level>>] = "Absent"

\* The environment the items are algebrized in.
SelectValuesEnv ==
    [k \in Keys |-> IF k[1] \in sel.source.names /\ k[2] = sel.self.scope_level
                      THEN "Must" ELSE sel.self.schema_env[k]]

BotKey == <<"Bot", sel.self.scope_level>>

PlainPositions == {i \in 1..Len(sel.exprs) : sel.exprs[i].t = "Expression"}

\* The key item i is to be bound to.
KeyOfItem(i) ==
    IF sel.exprs[i].t = "Expression" THEN BotKey
    ELSE <<sel.exprs[i].datasource, sel.self.scope_level>>

ItemInScope(i) ==
    sel.exprs[i].t = "Substar" =>
      nearest_scope_for_datasource(SelectValuesEnv, sel.exprs[i].datasource,
                                   sel.self.scope_level) # -1

ItemAlgebrizes(i) ==
    sel.exprs[i].t = "Expression" => sel.exprs[i].e # "Err"

\* The position of the second plain expression.
SecondPlain ==
    CHOOSE i \in PlainPositions :
      Cardinality({j \in PlainPositions : j < i}) = 1

\* Every item before position n algebrizes, is in scope and has a key of
\* its own.
CleanBefore(n) ==
    \A i \in 1..(n - 1) :
      /\ ItemAlgebrizes(i)
      /\ ItemInScope(i)
      /\ \A j \in 1..(i - 1) : KeyOfItem(j) # KeyOfItem(i)

\* A successful result binds item i to its key, in list order, with
\* pairwise distinct keys, a substar to the reference at the nearest scope.
BindingsAsListed ==
    (TupleIsBuilt /\ sel.result.ok) =>
      LET expression == sel.result.val.expression
      IN  /\ Len(expression) = Len(sel.exprs)
          /\ \A i, j \in 1..Len(expression) :
               i # j => expression[i].key # expression[j].key
          /\ \A i \in 1..Len(expression) :
               /\ expression[i].key = KeyOfItem(i)
               /\ sel.exprs[i].t = "Substar" =>
                    expression[i].value =
                      Reference(<<sel.exprs[i].datasource,
                                  nearest_scope_for_datasource(
                                    SelectValuesEnv, sel.exprs[i].datasource,
                                    sel.self.scope_level)>>)

\* C29 (as stated): the binding tuple has unique keys, and a SELECT VALUE
\* list with two or more plain expressions always fails with DuplicateKey
\* of the Bottom key.
C29_SelectValuesKeys_AsStated ==
    /\ BindingsAsListed
    /\ (TupleIsBuilt /\ Cardinality(PlainPositions) >= 2) =>
         sel.result = Err([e |-> "DuplicateKey", key |-> BotKey])

\* C29: the binding tuple has unique keys, every plain expression bound to
\* Key(Bottom, scope_level) and every substar a.* to Key(a, scope_level); a
\* list with two or more plain expressions always fails, and it fails with
\* DuplicateKey of the Bottom key when the second plain expression
\* algebrizes and every item before it algebrizes, is in scope and has a
\* key of its own; the first repeated key yields DuplicateKey(key) and the
\* first substar that is not in scope yields NoSuchDatasource when every
\* item before it is clean.
C29_SelectValuesKeys ==
    /\ BindingsAsListed
    /\ (TupleIsBuilt /\ Cardinality(PlainPositions) >= 2) =>
         /\ ~sel.result.ok
         /\ (CleanBefore(SecondPlain) /\ ItemAlgebrizes(SecondPlain)) =>
              sel.result = Err([e |-> "DuplicateKey", key |-> BotKey])
    /\ TupleIsBuilt =>
         \A n \in 1..Len(sel.exprs) :
           CleanBefore(n) =>
             /\ (ItemAlgebrizes(n)
                   /\ \E j \in 1..(n - 1) : KeyOfItem(j) = KeyOfItem(n)) =>
                  sel.result = Err([e |-> "DuplicateKey", key |-> KeyOfItem(n)])
             /\ (~ItemInScope(n)
                   /\ \A j \in 1..(n - 1) : KeyOfItem(j) # KeyOfItem(n)) =>
                  sel.result = Err([e |-> "NoSuchDatasource",
                                    datasource |-> sel.exprs[n].datasource])

C29_Witness_TwoPlain ==
    /\ TupleIsBuilt
    /\ Len(sel.exprs) = 2
    /\ sel.exprs[1] = [t |-> "Expression", e |-> "Document"]
    /\ sel.exprs[2] = [t |-> "Expression", e |-> "Document"]
    /\ sel.result = Err([e |-> "DuplicateKey", key |-> BotKey])

\* The second plain expression fails to algebrize before its key is looked
\* at.
C29_Witness_SecondFailsFirst ==
    /\ TupleIsBuilt
    /\ Len(sel.exprs) = 2
    /\ sel.exprs[1] = [t |-> "Expression", e |-> "Document"]
    /\ sel.exprs[2] = [t |-> "Expression", e |-> "Err"]
    /\ sel.result = Err([e |-> "ExprError"])

C29_Witness_SubstarOutOfScope ==
    /\ TupleIsBuilt
    /\ sel.exprs = <<[t |-> "Substar", datasource |-> "a"],
                     [t |-> "Expression", e |-> "Document"],
                     [t |-> "Expression", e |-> "Document"]>>
    /\ sel.result = Err([e |-> "NoSuchDatasource", datasource |-> "a"])

C29_Witness_SubstarTwice ==
    /\ TupleIsBuilt
    /\ sel.exprs = <<[t |-> "Substar", datasource |-> "a"],
                     [t |-> "Substar", datasource |-> "a"]>>
    /\ sel.result = Err([e |-> "DuplicateKey",
                         key |-> <<"a", sel.self.scope_level>>])

C29_Witness_Bound ==
    /\ TupleIsBuilt
    /\ sel.self.scope_level = 1
    /\ sel.self.schema_env[<<"a", 0>>] = "Must"
    /\ sel.source.names = {"b"}
    /\ sel.exprs = <<[t |-> "Substar", datasource |-> "a"],
                     [t |-> "Expression", e |-> "Document"],
                     [t |-> "Substar", datasource |-> "b"]>>
    /\ sel.result.ok
    /\ sel.result.val.expression[1] =
         [key |-> <<"a", 1>>, value |-> Reference(<<"a", 0>>)]
    /\ sel.result.val.expression[2].key = <<"Bot", 1>>
    /\ sel.result.val.expression[3] =
         [key |-> <<"b", 1>>, value |-> Reference(<<"b", 1>>)]

(***************************************************************************)
(* air/desugarer/subquery.rs : SubqueryLimitAdder                          *)
(***************************************************************************)

\* air::Stage values
AirCollection == [t |-> "Collection"]
AirLimit(source, limit) == [t |-> "Limit", source |-> source, limit |-> limit]
AirMatch(source, expr) == [t |-> "Match", source |-> source, expr |-> expr]

\* air::Expression values
AirLiteral(v) == [t |-> "Literal", v |-> v]
AirOp(op, args) == [t |-> "Op", op |-> op, args |-> args]
AirSubquery(let_bindings, output_path, pipeline) ==
    [t |-> "Subquery", let_bindings |-> let_bindings,
     output_path |-> output_path, pipeline |-> pipeline]
AirSubqueryComparison(op, modifier, arg, subquery) ==
    [t |-> "SubqueryComparison", op |-> op, modifier |-> modifier,
     arg |-> arg, subquery |-> subquery]
AirSubqueryExists(let_bindings, pipeline) ==
    [t |-> "SubqueryExists", let_bindings |-> let_bindings, pipeline |-> pipeline]

\* The pipelines and expressions fed to the pass, by nesting depth.
Pipelines0 == {AirCollection, AirLimit(AirCollection, 1)}

SubqueryExprsOver(pipelines, args) ==
    {AirSubquery(<<>>, <<"x">>, p) : p \in pipelines}
    \cup {AirSubqueryExists(<<>>, p) : p \in pipelines}
    \cup {AirSubqueryComparison("Eq", "Any", a, AirSubquery(<<>>, <<"x">>, p)) :
            a \in args, p \in pipelines}

Exprs1 == {AirLiteral(1)} \cup SubqueryExprsOver(Pipelines0, {AirLiteral(1)})

Pipelines1 ==
    Pipelines0 \cup {AirMatch(AirCollection, e) : e \in Exprs1 \ {AirLiteral(1)}}

Exprs2 == Exprs1 \cup SubqueryExprsOver(Pipelines1, Exprs1)

AirPipelines ==
    {AirMatch(AirCollection, e) : e \in Exprs2}
    \cup {AirMatch(AirCollection, AirOp("And", <<e1, e2>>)) :
            e1 \in Exprs1, e2 \in Exprs1}

\* matches!(*node.pipeline, Limit(Limit { source: _, limit: 1 }))
IsLimit1(pipeline) == pipeline.t = "Limit" /\ pipeline.limit = 1

\* The visitor state is the flag ignore_subquery_comp_subquery; every visit
\* returns the rewritten node and the flag it leaves behind.
Visited(n, flag) == [n |-> n, flag |-> flag]

RECURSIVE SubqueryLimitAdder_visit(_, _)
RECURSIVE SubqueryLimitAdder_visit_args(_, _)
RECURSIVE SubqueryLimitAdder_visit_subquery(_, _)

\* Vec<Expression>::walk: the elements in order.
SubqueryLimitAdder_visit_args(flag, args) ==
    IF args = <<>> THEN Visited(<<>>, flag)
    ELSE LET h == SubqueryLimitAdder_visit(flag, Head(args))
             r == SubqueryLimitAdder_visit_args(h.flag, Tail(args))
         IN  Visited(<<h.n>> \o r.n, r.flag)

\* Subquery::walk: let_bindings (empty here), output_path, then pipeline.
Subquery_walk(flag, node) ==
    LET p == SubqueryLimitAdder_visit(flag, node.pipeline)
    IN  Visited([node EXCEPT !.pipeline = p.n], p.flag)

SubqueryLimitAdder_visit_subquery(flag, node) ==
    LET w == Subquery_walk(flag, node)
    IN  IF w.flag \/ IsLimit1(w.n.pipeline)
          THEN w
          ELSE Visited([w.n EXCEPT !.pipeline = AirLimit(w.n.pipeline, 1)], w.flag)

\* SubqueryComparison::walk under the flag: op, modifier, arg, then subquery.
SubqueryLimitAdder_visit_subquery_comparison(flag, node) ==
    LET a == SubqueryLimitAdder_visit(TRUE, node.arg)
        q == SubqueryLimitAdder_visit_subquery(a.flag, node.subquery)
    IN  Visited([node EXCEPT !.arg = a.n, !.subquery = q.n], FALSE)

SubqueryLimitAdder_visit_subquery_exists_as(flag, node) ==
    LET p == SubqueryLimitAdder_visit(flag, node.pipeline)
        w == [node EXCEPT !.pipeline = p.n]
    IN  Visited([w EXCEPT !.pipeline = AirLimit(w.pipeline, 1)], p.flag)

SubqueryLimitAdder_visit_subquery_exists(flag, node) ==
    LET p == SubqueryLimitAdder_visit(flag, node.pipeline)
        w == [node EXCEPT !.pipeline = p.n]
    IN  IF IsLimit1(w.pipeline)
          THEN Visited(w, p.flag)
          ELSE Visited([w EXCEPT !.pipeline = AirLimit(w.pipeline, 1)], p.flag)

\* visit_stage / visit_expression: the default visitor methods walk the
\* node, which dispatches on its variant and visits the children in field
\* order.
SubqueryLimitAdder_visit(flag, node) ==
    CASE node.t = "Subquery" -> SubqueryLimitAdder_visit_subquery(flag, node)
      [] node.t = "SubqueryComparison" ->
           SubqueryLimitAdder_visit_subquery_comparison(flag, node)
      [] node.t = "SubqueryExists" ->
           SubqueryLimitAdder_visit_subquery_exists(flag, node)
      [] node.t = "Op" ->
           LET a == SubqueryLimitAdder_visit_args(flag, node.args)
           IN  Visited([node EXCEPT !.args = a.n], a.flag)
      [] node.t = "Limit" ->
           LET src == SubqueryLimitAdder_visit(flag, node.source)
           IN  Visited([node EXCEPT !.source = src.n], src.flag)
      [] node.t = "Match" ->
           LET src == SubqueryLimitAdder_visit(flag, node.source)
               e == SubqueryLimitAdder_visit(src.flag, node.expr)
           IN  Visited([node EXCEPT !.source = src.n, !.expr = e.n], e.flag)
      [] node.t = "Group" ->
           LET src == SubqueryLimitAdder_visit(flag, node.source)
               ks == SubqueryLimitAdder_visit_args(src.flag, node.keys)
           IN  Visited([node EXCEPT !.source = src.n, !.keys = ks.n], ks.flag)
      [] OTHER -> Visited(node, flag)

notLa == <<dsg, sel, res, jn, fnc, sq, sd, cg, sch>>

LaInit ==
    /\ la = [pc |-> "idle"]
    /\ dsg = Off /\ sel = Off /\ res = Off /\ jn = Off /\ fnc = Off /\ sq = Off
    /\ sd = Off /\ cg = Off /\ sch = Off

\* SubqueryExprDesugarerPass::apply, first half:
\*   let pipeline = SubqueryLimitAdder::default().visit_stage(pipeline);
SubqueryLimitAdder_run ==
    /\ la.pc = "idle"
    /\ \E p \in AirPipelines :
         la' = [pc |-> "limited", input |-> p,
                pipeline |-> SubqueryLimitAdder_visit(FALSE, p).n]
    /\ UNCHANGED notLa

\* The pass applied to its own output.
SubqueryLimitAdder_rerun ==
    /\ la.pc = "limited"
    /\ la' = [pc |-> "relimited", input |-> la.input, pipeline |-> la.pipeline,
              again |-> SubqueryLimitAdder_visit(FALSE, la.pipeline).n]
    /\ UNCHANGED notLa

LaNext ==
    \/ SubqueryLimitAdder_run
    \/ SubqueryLimitAdder_rerun

SpecSubqueryPass == LaInit /\ [][LaNext]_vars

RECURSIVE PlainSubqueriesLimited(_)

\* Every plain Subquery and every SubqueryExists below `node` has a pipeline
\* whose outermost stage is Limit(1).
PlainSubqueriesLimited(node) ==
    CASE node.t \in {"Subquery", "SubqueryExists"} ->
           IsLimit1(node.pipeline) /\ PlainSubqueriesLimited(node.pipeline)
      [] node.t = "SubqueryComparison" ->
           /\ PlainSubqueriesLimited(node.arg)
           /\ PlainSubqueriesLimited(node.subquery.pipeline)
      [] node.t = "Op" ->
           \A k \in 1..Len(node.args) : PlainSubqueriesLimited(node.args[k])
      [] node.t = "Limit" -> PlainSubqueriesLimited(node.source)
      [] node.t = "Match" ->
           PlainSubqueriesLimited(node.source) /\ PlainSubqueriesLimited(node.expr)
      [] OTHER -> TRUE

RECURSIVE ComparisonPipelineTops(_)
RECURSIVE ComparisonPipelineTopsOfArgs(_)

ComparisonPipelineTopsOfArgs(args) ==
    IF args = <<>> THEN <<>>
    ELSE ComparisonPipelineTops(Head(args)) \o ComparisonPipelineTopsOfArgs(Tail(args))

\* In traversal order, whether the pipeline of the subquery of each
\* SubqueryComparison below `node` has Limit(1) as its outermost stage.
ComparisonPipelineTops(node) ==
    CASE node.t \in {"Subquery", "SubqueryExists"} ->
           ComparisonPipelineTops(node.pipeline)
      [] node.t = "SubqueryComparison" ->
           ComparisonPipelineTops(node.arg)
             \o <<IsLimit1(node.subquery.pipeline)>>
             \o ComparisonPipelineTops(node.subquery.pipeline)
      [] node.t = "Op" -> ComparisonPipelineTopsOfArgs(node.args)
      [] node.t = "Limit" -> ComparisonPipelineTops(node.source)
      [] node.t = "Match" ->
           ComparisonPipelineTops(node.source) \o ComparisonPipelineTops(node.expr)
      [] OTHER -> <<>>

\* C10: after the Limit(1) pre-walk the pipeline of every plain Subquery and
\* of every SubqueryExists ends with Limit(1), and the pipeline of the
\* subquery of a SubqueryComparison has received no Limit(1), for every
\* nesting of these expressions.
C10_LimitAdded ==
    la.pc = "limited" =>
      /\ PlainSubqueriesLimited(la.pipeline)
      /\ ComparisonPipelineTops(la.pipeline) = ComparisonPipelineTops(la.input)

RECURSIVE LimitRun(_)
\* The number of consecutive Limit(1) stages at the top of a pipeline.
LimitRun(pipeline) ==
    IF pipeline.t = "Limit" /\ pipeline.limit = 1
      THEN 1 + LimitRun(pipeline.source)
      ELSE 0

RECURSIVE LimitRuns(_)
RECURSIVE LimitRunsOfArgs(_)

LimitRunsOfArgs(args) ==
    IF args = <<>> THEN <<>>
    ELSE LimitRuns(Head(args)) \o LimitRunsOfArgs(Tail(args))

\* In traversal order, LimitRun of the pipeline of every Subquery and
\* SubqueryExists below `node`.
LimitRuns(node) ==
    CASE node.t \in {"Subquery", "SubqueryExists"} ->
           <<LimitRun(node.pipeline)>> \o LimitRuns(node.pipeline)
      [] node.t = "SubqueryComparison" ->
           LimitRuns(node.arg) \o LimitRuns(node.subquery)
      [] node.t = "Op" -> LimitRunsOfArgs(node.args)
      [] node.t = "Limit" -> LimitRuns(node.source)
      [] node.t = "Match" -> LimitRuns(node.source) \o LimitRuns(node.expr)
      [] OTHER -> <<>>

\* C30: the Limit(1) pre-walk is idempotent: a Subquery or SubqueryExists
\* pipeline whose outermost stage is already Limit(1) receives no further
\* Limit(1), applying the pass to its own output gives the same tree, and
\* no pipeline ends with two consecutive Limit(1) stages added by the pass.
C30_LimitIdempotent ==
    /\ la.pc = "relimited" => la.again = la.pipeline
    /\ la.pc \in {"limited", "relimited"} =>
         LET before == LimitRuns(la.input)
             after == LimitRuns(la.pipeline)
         IN  /\ Len(after) = Len(before)
             /\ \A k \in 1..Len(before) :
                  /\ before[k] >= 1 => after[k] = before[k]
                  /\ before[k] = 0 => after[k] <= 1

\* The first application added a Limit(1) next to a subquery that already
\* had one, the second application changed nothing.
C30_Witness_Reapplied ==
    /\ la.pc = "relimited"
    /\ la.input = AirMatch(AirCollection,
                    AirOp("And", <<AirSubqueryExists(<<>>, AirCollection),
                                   AirSubquery(<<>>, <<"x">>,
                                               AirLimit(AirCollection, 1))>>))
    /\ la.pipeline = AirMatch(AirCollection,
                       AirOp("And", <<AirSubqueryExists(<<>>, AirLimit(AirCollection, 1)),
                                      AirSubquery(<<>>, <<"x">>,
                                                  AirLimit(AirCollection, 1))>>))
    /\ la.again = la.pipeline

\* A nested subquery: both levels receive their Limit(1) in one application.
C30_Witness_Nested ==
    /\ la.pc = "relimited"
    /\ la.input = AirMatch(AirCollection,
                    AirSubqueryExists(<<>>,
                      AirMatch(AirCollection, AirSubquery(<<>>, <<"x">>, AirCollection))))
    /\ LimitRuns(la.input) = <<0, 0>>
    /\ LimitRuns(la.pipeline) = <<1, 1>>
    /\ la.again = la.pipeline

(***************************************************************************)
(* air/desugarer/subquery.rs : SubqueryExprDesugarerPassVisitor            *)
(***************************************************************************)

\* Largest number of expressions held by one Group stage fed to the pass.
MaxKeys == 2

\* Further air::Stage and air::Expression values
AirGroup(source, keys) == [t |-> "Group", source |-> source, keys |-> keys]
AirLookup(source, let_vars, pipeline, as_var) ==
    [t |-> "Lookup", source |-> source, let_vars |-> let_vars,
     pipeline |-> pipeline, as_var |-> as_var]
AirProject(source, specifications) ==
    [t |-> "Project", source |-> source, specifications |-> specifications]
AirFieldRef(name) == [t |-> "FieldRef", name |-> name]
AirVariable(name) == [t |-> "Variable", name |-> name]
AirLet(letvars, inside) == [t |-> "Let", vars |-> letvars, inside |-> inside]
LetVariable(name, expr) == [name |-> name, expr |-> expr]
AirReduce(input, init_value, inside) ==
    [t |-> "Reduce", input |-> input, init_value |-> init_value, inside |-> inside]

\* Option<Vec<LetVariable>>
None == [some |-> FALSE]
Some(x) == [some |-> TRUE, val |-> x]

\* Strings are sequences of tokens.  format!("__subquery_result_{}", n)
AsVar(n) == <<"__subquery_result_", n>>

\* output_path.join(".")
RECURSIVE PathJoin(_)
PathJoin(path) ==
    IF path = <<>> THEN <<>>
    ELSE IF Len(path) = 1 THEN <<path[1]>>
    ELSE <<path[1], ".">> \o PathJoin(Tail(path))

\* format!("{}.{}", prefix, output_path.join("."))
DottedPath(prefix, output_path) == <<prefix, ".">> \o PathJoin(output_path)

\* Stage::get_source / Stage::set_source
get_source(stage) ==
    IF stage.t \in {"Match", "Group", "Limit", "Lookup", "Project"}
      THEN stage.source ELSE stage
set_source(stage, source) ==
    IF stage.t \in {"Match", "Group", "Limit", "Lookup", "Project"}
      THEN [stage EXCEPT !.source = source] ELSE stage

\* The expressions a stage holds, in field order.
StageExprs(stage) ==
    CASE stage.t = "Match" -> <<stage.expr>>
      [] stage.t = "Group" -> stage.keys
      [] OTHER -> <<>>
WithStageExprs(stage, exprs) ==
    CASE stage.t = "Match" -> [stage EXCEPT !.expr = exprs[1]]
      [] stage.t = "Group" -> [stage EXCEPT !.keys = exprs]
      [] OTHER -> stage

\* The fields of SubqueryExprDesugarerPassVisitor.
Visitor(subquery_counter, as_names, subquery_lookups) ==
    [subquery_counter |-> subquery_counter, as_names |-> as_names,
     subquery_lookups |-> subquery_lookups]

\* Every visitor method returns the rewritten node and the visitor state.
Rewritten(n, v) == [n |-> n, v |-> v]

\* subquery_counter: u8
U8Modulus == 256
u8_wrapping_add(a, b) == (a + b) % U8Modulus

process_subquery_expr_as(v, let_bindings, pipeline) ==
    LET as_var == AsVar(v.subquery_counter)
        let_vars == IF let_bindings = <<>> THEN None ELSE Some(let_bindings)
    IN  [as_name |-> as_var,
         v |-> Visitor(v.subquery_counter, Append(v.as_names, as_var),
                       AirLookup(v.subquery_lookups, let_vars, pipeline, as_var))]

\* `self.subquery_counter += 1` on a u8 as a build without overflow checks
\* computes it; a build with overflow checks panics instead of wrapping
\* (process_subquery_expr_overflow).
process_subquery_expr(v, let_bindings, pipeline) ==
    LET as_var == AsVar(v.subquery_counter)
        let_vars == IF let_bindings = <<>> THEN None ELSE Some(let_bindings)
    IN  [as_name |-> as_var,
         v |-> Visitor(u8_wrapping_add(v.subquery_counter, 1),
                       Append(v.as_names, as_var),
                       AirLookup(v.subquery_lookups, let_vars, pipeline, as_var))]

\* air::Expression::MQLSemanticOperator / SQLSemanticOperator
MQLSemanticOperator(op, args) ==
    [t |-> "MQLSemanticOperator", op |-> op, args |-> args]
SQLSemanticOperator(op, args) ==
    [t |-> "SQLSemanticOperator", op |-> op, args |-> args]

SubqueryComparisonOps == {"Lt", "Lte", "Neq", "Eq", "Gt", "Gte"}
SubqueryModifiers == {"Any", "All"}

\* let comp_op = match subquery_comp.op { ... }
comp_op(op) ==
    CASE op = "Lt" -> "Lt"
      [] op = "Lte" -> "Lte"
      [] op = "Neq" -> "Ne"
      [] op = "Eq" -> "Eq"
      [] op = "Gt" -> "Gt"
      [] op = "Gte" -> "Gte"

\* let (initial_value, combinator_op) = match subquery_comp.modifier { ... }
initial_value_combinator_op_as(modifier) ==
    CASE modifier = "Any" -> <<AirLiteral(TRUE), "Or">>
      [] modifier = "All" -> <<AirLiteral(FALSE), "And">>

initial_value_combinator_op(modifier) ==
    CASE modifier = "Any" -> <<AirLiteral(FALSE), "Or">>
      [] modifier = "All" -> <<AirLiteral(TRUE), "And">>

desugar_subquery_as(v, subquery) ==
    LET p == process_subquery_expr(v, subquery.let_bindings, subquery.pipeline)
    IN  Rewritten(
          AirLet(<<LetVariable("docExpr",
                     MQLSemanticOperator("ElemAt",
                       <<AirFieldRef(AsVar(0)), AirLiteral(0)>>))>>,
                 AirVariable(DottedPath("docExpr", subquery.output_path))),
          p.v)

desugar_subquery(v, subquery) ==
    LET p == process_subquery_expr(v, subquery.let_bindings, subquery.pipeline)
    IN  Rewritten(
          AirLet(<<LetVariable("docExpr",
                     MQLSemanticOperator("ElemAt",
                       <<AirFieldRef(p.as_name), AirLiteral(0)>>))>>,
                 AirVariable(DottedPath("docExpr", subquery.output_path))),
          p.v)

desugar_subquery_comparison(v, subquery_comp) ==
    LET p == process_subquery_expr(v, subquery_comp.subquery.let_bindings,
                                   subquery_comp.subquery.pipeline)
        ic == initial_value_combinator_op(subquery_comp.modifier)
        output_path == DottedPath("this", subquery_comp.subquery.output_path)
    IN  Rewritten(
          AirReduce(AirFieldRef(p.as_name), ic[1],
            SQLSemanticOperator(ic[2],
              <<AirVariable(<<"value">>),
                SQLSemanticOperator(comp_op(subquery_comp.op),
                  <<subquery_comp.arg, AirVariable(output_path)>>)>>)),
          p.v)

desugar_subquery_exists(v, subquery_exists) ==
    LET p == process_subquery_expr(v, subquery_exists.let_bindings,
                                   subquery_exists.pipeline)
    IN  Rewritten(
          MQLSemanticOperator("Gt",
            <<MQLSemanticOperator("Size", <<AirFieldRef(p.as_name)>>),
              AirLiteral(0)>>),
          p.v)

\* visit_stage, entry: store the visitor's fields and reset them.
visit_stage_reset(stage) == Visitor(0, <<>>, get_source(stage))

\* stage.set_source(self.subquery_lookups.clone())
prepend_lookups_as(stage, v) == stage

prepend_lookups(stage, v) == set_source(stage, v.subquery_lookups)

\* The Project specifications: an ordered map, as a sequence of pairs.
ExclusionSpecs(as_names) ==
    [i \in 1..Len(as_names) |-> <<as_names[i], "Exclusion">>]

project_specifications_as(stage, v) ==
    Append(ExclusionSpecs(v.as_names), <<"_id", "Exclusion">>)

project_specifications(stage, v) ==
    Append(ExclusionSpecs(v.as_names),
           <<"_id", IF stage.t = "Group" THEN "Inclusion" ELSE "Exclusion">>)

\* visit_stage, exit: the visitor's fields get the values stored on entry.
visit_stage_restore_as(initial, walked) == walked

visit_stage_restore(initial, walked) ==
    Visitor(initial.subquery_counter, initial.as_names,
            initial.subquery_lookups)

\* visit_stage, after the walk: the new stage.
visit_stage_new_stage(stage, v) ==
    IF v.subquery_counter = 0
      THEN stage
      ELSE LET s == prepend_lookups(stage, v)
           IN  AirProject(s, project_specifications(s, v))

RECURSIVE visit_stage(_, _)
RECURSIVE Stage_walk(_, _)
RECURSIVE visit_expression(_, _)
RECURSIVE visit_expressions(_, _)
RECURSIVE Expression_walk(_, _)

\* Vec<Expression>::walk: the elements in order.
visit_expressions(v, exprs) ==
    IF exprs = <<>> THEN Rewritten(<<>>, v)
    ELSE LET h == visit_expression(v, Head(exprs))
             r == visit_expressions(h.v, Tail(exprs))
         IN  Rewritten(<<h.n>> \o r.n, r.v)

\* Expression::walk: the children of the node, in field order; the pipeline
\* of a subquery is a stage and is visited by visit_stage.
Expression_walk(v, node) ==
    CASE node.t \in {"Op", "MQLSemanticOperator", "SQLSemanticOperator"} ->
           LET a == visit_expressions(v, node.args)
           IN  Rewritten([node EXCEPT !.args = a.n], a.v)
      [] node.t \in {"Subquery", "SubqueryExists"} ->
           LET p == visit_stage(v, node.pipeline)
           IN  Rewritten([node EXCEPT !.pipeline = p.n], p.v)
      [] node.t = "SubqueryComparison" ->
           LET a == visit_expression(v, node.arg)
               p == visit_stage(a.v, node.subquery.pipeline)
           IN  Rewritten([node EXCEPT !.arg = a.n, !.subquery.pipeline = p.n], p.v)
      [] OTHER -> Rewritten(node, v)

visit_expression(v, node) ==
    LET w == Expression_walk(v, node)
    IN  CASE w.n.t = "Subquery" -> desugar_subquery(w.v, w.n)
          [] w.n.t = "SubqueryComparison" -> desugar_subquery_comparison(w.v, w.n)
          [] w.n.t = "SubqueryExists" -> desugar_subquery_exists(w.v, w.n)
          [] OTHER -> w

\* Stage::walk: the source stage, then the expressions of the stage.
Stage_walk(v, stage) ==
    IF stage.t \in {"Match", "Group", "Limit"}
      THEN LET src == visit_stage(v, stage.source)
               es == visit_expressions(src.v, StageExprs(stage))
           IN  Rewritten(WithStageExprs([stage EXCEPT !.source = src.n], es.n), es.v)
      ELSE Rewritten(stage, v)

\* visit_stage: reset, walk, build the new stage, restore.
visit_stage(v, stage) ==
    LET w == Stage_walk(visit_stage_reset(stage), stage)
    IN  Rewritten(visit_stage_new_stage(w.n, w.v), visit_stage_restore(v, w.v))

\* The pipelines fed to SubqueryExprDesugarerPass::apply.
SdNestedPipelines ==
    {AirCollection,
     AirMatch(AirCollection, AirSubquery(<<>>, <<"z">>, AirCollection))}

SdSources ==
    {AirCollection,
     AirMatch(AirCollection, AirSubqueryExists(<<>>, AirCollection))}

SdLetBindings == {<<>>, <<"v">>}

SdSubqueries ==
    {AirSubquery(lb, path, p) :
       lb \in SdLetBindings, path \in {<<"x">>, <<"x", "y">>},
       p \in SdNestedPipelines}

SdSubqueryExists ==
    {AirSubqueryExists(lb, p) : lb \in SdLetBindings, p \in SdNestedPipelines}

SdSubqueryComparisons ==
    {AirSubqueryComparison(op, m, AirLiteral(1),
                           AirSubquery(<<>>, <<"x">>, AirCollection)) :
       op \in SubqueryComparisonOps, m \in SubqueryModifiers}
    \cup {AirSubqueryComparison("Eq", "All", a,
                                AirSubquery(<<"v">>, <<"x", "y">>, AirCollection)) :
            a \in {AirSubquery(<<>>, <<"w">>, AirCollection),
                   AirSubqueryExists(<<>>, AirCollection)}}

SdExprs ==
    {AirLiteral(1)} \cup SdSubqueries \cup SdSubqueryExists
    \cup SdSubqueryComparisons
    \cup {AirOp("And", <<AirSubqueryExists(<<>>, AirCollection),
                         AirSubquery(<<>>, <<"x">>, AirCollection)>>)}

SdPipelines ==
    {AirMatch(src, e) : src \in SdSources, e \in SdExprs}
    \cup {AirGroup(src, keys) :
            src \in SdSources, keys \in SeqsUpTo(SdExprs, MaxKeys) \ {<<>>}}

notSd == <<dsg, sel, res, jn, fnc, sq, la, cg, sch>>

SdInit ==
    /\ sd = [pc |-> "idle"]
    /\ dsg = Off /\ sel = Off /\ res = Off /\ jn = Off /\ fnc = Off /\ sq = Off
    /\ la = Off /\ cg = Off /\ sch = Off

\* SubqueryExprDesugarerPass::apply up to the call of visitor.visit_stage.
SubqueryExprDesugarerPass_apply ==
    /\ sd.pc = "idle"
    /\ \E p \in SdPipelines :
         LET pipeline == SubqueryLimitAdder_visit(FALSE, p).n
         IN  sd' = [pc |-> "visit_stage", input |-> p, pipeline |-> pipeline,
                    visitor |-> Visitor(0, <<>>, get_source(pipeline))]
    /\ UNCHANGED notSd

\* visit_stage on the pipeline: store and reset the fields, then the first
\* part of stage.walk, which visits the source stage.
visit_stage_enter ==
    /\ sd.pc = "visit_stage"
    /\ LET v == visit_stage_reset(sd.pipeline)
           src == visit_stage(v, sd.pipeline.source)
       IN  sd' = [pc |-> "walk", input |-> sd.input, pipeline |-> sd.pipeline,
                  initial |-> sd.visitor, visitor |-> src.v,
                  stage |-> [sd.pipeline EXCEPT !.source = src.n],
                  pending |-> StageExprs(sd.pipeline), visited |-> <<>>]
    /\ UNCHANGED notSd

\* stage.walk, continued: visit_expression on the next expression.
visit_expression_call ==
    /\ sd.pc = "walk"
    /\ sd.pending # <<>>
    /\ LET r == visit_expression(sd.visitor, Head(sd.pending))
       IN  sd' = [sd EXCEPT !.visitor = r.v,
                            !.pending = Tail(sd.pending),
                            !.visited = Append(sd.visited, r.n)]
    /\ UNCHANGED notSd

\* visit_stage, after the walk: build new_stage and restore the fields.
visit_stage_return ==
    /\ sd.pc = "walk"
    /\ sd.pending = <<>>
    /\ sd' = [pc |-> "done", input |-> sd.input, pipeline |-> sd.pipeline,
              visitor |-> visit_stage_restore(sd.initial, sd.visitor),
              walked |-> sd.visitor,
              result |-> visit_stage_new_stage(
                           WithStageExprs(sd.stage, sd.visited), sd.visitor)]
    /\ UNCHANGED notSd

SdNext ==
    \/ SubqueryExprDesugarerPass_apply
    \/ visit_stage_enter
    \/ visit_expression_call
    \/ visit_stage_return

SpecSubqueryDesugar == SdInit /\ [][SdNext]_vars

RECURSIVE SubqueryNodes(_)
RECURSIVE SubqueryNodesOfSeq(_)

SubqueryNodesOfSeq(exprs) ==
    IF exprs = <<>> THEN <<>>
    ELSE SubqueryNodes(Head(exprs)) \o SubqueryNodesOfSeq(Tail(exprs))

\* The subquery expressions a stage expression directly contains, in
\* left-to-right, children-before-parent order (pipelines are other stages).
SubqueryNodes(e) ==
    CASE e.t \in {"Subquery", "SubqueryExists"} -> <<e>>
      [] e.t = "SubqueryComparison" -> SubqueryNodes(e.arg) \o <<e>>
      [] e.t = "Op" -> SubqueryNodesOfSeq(e.args)
      [] OTHER -> <<>>

PipelineOfNode(e) ==
    IF e.t = "SubqueryComparison" THEN e.subquery.pipeline ELSE e.pipeline
LetBindingsOfNode(e) ==
    IF e.t = "SubqueryComparison" THEN e.subquery.let_bindings ELSE e.let_bindings

\* The Lookup stages on top of `stage`, innermost first, and what they sit on.
RECURSIVE LookupChain(_)
LookupChain(stage) ==
    IF stage.t = "Lookup" THEN Append(LookupChain(stage.source), stage) ELSE <<>>
RECURSIVE ChainBottom(_)
ChainBottom(stage) ==
    IF stage.t = "Lookup" THEN ChainBottom(stage.source) ELSE stage

\* Every stage of a tree, stages inside expressions and Lookup pipelines
\* included.
RECURSIVE AllStages(_)
AllStages(node) ==
    CASE node.t = "Collection" -> {node}
      [] node.t = "Match" ->
           {node} \cup AllStages(node.source) \cup AllStages(node.expr)
      [] node.t = "Group" ->
           {node} \cup AllStages(node.source)
             \cup UNION {AllStages(node.keys[i]) : i \in 1..Len(node.keys)}
      [] node.t \in {"Limit", "Project"} -> {node} \cup AllStages(node.source)
      [] node.t = "Lookup" ->
           {node} \cup AllStages(node.source) \cup AllStages(node.pipeline)
      [] node.t \in {"Op", "MQLSemanticOperator", "SQLSemanticOperator"} ->
           UNION {AllStages(node.args[i]) : i \in 1..Len(node.args)}
      [] node.t = "Let" ->
           AllStages(node.inside)
             \cup UNION {AllStages(node.vars[i].expr) : i \in 1..Len(node.vars)}
      [] node.t = "Reduce" ->
           AllStages(node.input) \cup AllStages(node.init_value)
             \cup AllStages(node.inside)
      [] node.t \in {"Subquery", "SubqueryExists"} -> AllStages(node.pipeline)
      [] node.t = "SubqueryComparison" ->
           AllStages(node.arg) \cup AllStages(node.subquery.pipeline)
      [] OTHER -> {}

\* The subquery expressions of the visited stage, the stage inside the
\* returned Project (the returned stage itself when nothing was desugared)
\* and its Lookup chain.
SdNodes == SubqueryNodesOfSeq(StageExprs(sd.pipeline))
SdStage == IF sd.result.t = sd.pipeline.t THEN sd.result ELSE sd.result.source
SdChain == LookupChain(SdStage.source)

AsVarsOf(chain) == [i \in 1..Len(chain) |-> chain[i].as_var]
ZeroBased(n) == [i \in 1..n |-> AsVar(i - 1)]

\* C11: within one stage the k-th subquery expression desugared, in
\* left-to-right children-before-parent order, gets the as-name
\* __subquery_result_<k-1>; the numbering starts at 0 in every stage, a stage
\* nested in a subquery's pipeline included.
C11_AsNames ==
    /\ sd.pc = "walk" =>
         sd.visitor.as_names =
           ZeroBased(Len(SubqueryNodesOfSeq(
             SubSeq(StageExprs(sd.pipeline), 1, Len(sd.visited)))))
    /\ sd.pc = "done" =>
         /\ sd.walked.as_names = ZeroBased(Len(SdNodes))
         /\ \A i \in 1..Len(SdNodes) :
              /\ i <= Len(SdChain)
              /\ SdChain[i].as_var = AsVar(i - 1)
              /\ SdChain[i].pipeline =
                   visit_stage(sd.visitor, PipelineOfNode(SdNodes[i])).n
         /\ \A st \in AllStages(sd.result) :
              LET chain == LookupChain(st) IN AsVarsOf(chain) = ZeroBased(Len(chain))

\* Two subquery expressions in the stage, the first with a subquery expression
\* in its own pipeline.
C11_Witness_Nested ==
    /\ sd.pc = "done"
    /\ Len(SdNodes) = 2
    /\ SdChain[2].as_var = AsVar(1)
    /\ \E st \in AllStages(SdChain[1].pipeline) :
         st.t = "Lookup" /\ st.as_var = AsVar(0)

\* C12: after visit_stage on a stage that directly contains k >= 1 subquery
\* expressions, the source of the stage is a chain of exactly k Lookups in
\* encounter order, the first innermost on the source the stage had on entry,
\* each with the pipeline, the let bindings (None when empty) and the as-name
\* of its subquery expression.
C12_LookupChain ==
    (sd.pc = "done" /\ Len(SdNodes) >= 1) =>
      /\ Len(SdChain) = Len(SdNodes)
      /\ ChainBottom(SdStage.source) = get_source(sd.pipeline)
      /\ \A i \in 1..Len(SdChain) :
           /\ SdChain[i].source =
                (IF i = 1 THEN get_source(sd.pipeline) ELSE SdChain[i - 1])
           /\ SdChain[i].pipeline =
                visit_stage(sd.visitor, PipelineOfNode(SdNodes[i])).n
           /\ SdChain[i].let_vars =
                (IF LetBindingsOfNode(SdNodes[i]) = <<>>
                   THEN None ELSE Some(LetBindingsOfNode(SdNodes[i])))
           /\ SdChain[i].as_var = AsVar(i - 1)
      /\ SdStage.source = SdChain[Len(SdChain)]

\* Two subquery expressions, the first without and the second with let
\* bindings.
C12_Witness_TwoLookups ==
    /\ sd.pc = "done"
    /\ Len(SdNodes) = 2
    /\ Len(SdChain) = 2
    /\ SdChain[1].let_vars = None
    /\ SdChain[2].let_vars = Some(<<"v">>)
    /\ SdChain[1].source = AirCollection
    /\ SdChain[2].source = SdChain[1]

\* C13: visit_stage wraps the stage in a new Project iff the stage directly
\* contains a subquery expression; the Project excludes every as-name in
\* allocation order and then has _id, included iff the stage is a Group;
\* there is one Project per stage, and a stage without subquery expressions
\* gets neither a Lookup nor a Project.
C13_Project ==
    sd.pc = "done" =>
      /\ (Len(SdNodes) >= 1) <=> (sd.result.t = "Project")
      /\ Len(SdNodes) >= 1 =>
           /\ sd.result.source.t = sd.pipeline.t
           /\ sd.result.specifications =
                [i \in 1..Len(SdNodes) |-> <<AsVar(i - 1), "Exclusion">>]
                \o << <<"_id", IF sd.pipeline.t = "Group"
                                 THEN "Inclusion" ELSE "Exclusion">> >>
      /\ Len(SdNodes) = 0 =>
           sd.result = [sd.pipeline EXCEPT
                          !.source = visit_stage(sd.visitor, sd.pipeline.source).n]
      /\ \A st \in AllStages(sd.result) :
           /\ st.t = "Project" =>
                /\ st.source.t # "Project"
                /\ st.source.source.t = "Lookup"
                /\ Len(st.specifications) = Len(LookupChain(st.source.source)) + 1
           /\ (st.t \in {"Match", "Group", "Limit"} /\ st.source.t = "Lookup") =>
                \E pr \in AllStages(sd.result) : pr.t = "Project" /\ pr.source = st

C13_Witness_Group ==
    /\ sd.pc = "done"
    /\ sd.pipeline.t = "Group"
    /\ sd.result.t = "Project"
    /\ sd.result.specifications =
         << <<AsVar(0), "Exclusion">>, <<AsVar(1), "Exclusion">>,
            <<"_id", "Inclusion">> >>

C13_Witness_NoSubquery ==
    /\ sd.pc = "done"
    /\ sd.input = AirMatch(AirCollection, AirLiteral(1))
    /\ sd.result = sd.input

\* The number of subquery expressions in the first j expressions of the stage.
SdCount(j) == Len(SubqueryNodesOfSeq(SubSeq(StageExprs(sd.pipeline), 1, j)))

ExpectedInitValue(modifier) == IF modifier = "Any" THEN FALSE ELSE TRUE
ExpectedCombinator(modifier) == IF modifier = "Any" THEN "Or" ELSE "And"
ExpectedComparison(op) == IF op = "Neq" THEN "Ne" ELSE op

\* C14: SubqueryComparison{op, modifier, arg, subquery} is replaced by
\* Reduce{input: FieldRef(as_name), init_value, inside: combinator(
\* Variable(value), op'(arg, Variable(this.<output_path joined by '.'>)))}
\* with (false, Or) for Any, (true, And) for All, and op' the SQL operator
\* matching op.
C14_ComparisonReplacement ==
    sd.pc = "done" =>
      \A j \in 1..Len(StageExprs(sd.pipeline)) :
        LET e == StageExprs(sd.pipeline)[j]
            out == StageExprs(SdStage)[j]
            before == Visitor(SdCount(j - 1), ZeroBased(SdCount(j - 1)), AirCollection)
        IN  e.t = "SubqueryComparison" =>
              /\ out.t = "Reduce"
              /\ out.input = AirFieldRef(AsVar(SdCount(j) - 1))
              /\ out.init_value = AirLiteral(ExpectedInitValue(e.modifier))
              /\ out.inside.t = "SQLSemanticOperator"
              /\ out.inside.op = ExpectedCombinator(e.modifier)
              /\ Len(out.inside.args) = 2
              /\ out.inside.args[1] = AirVariable(<<"value">>)
              /\ out.inside.args[2].t = "SQLSemanticOperator"
              /\ out.inside.args[2].op = ExpectedComparison(e.op)
              /\ out.inside.args[2].args =
                   << visit_expression(before, e.arg).n,
                      AirVariable(<<"this", ".">> \o PathJoin(e.subquery.output_path)) >>

C14_Witness_NeqAll ==
    /\ sd.pc = "done"
    /\ sd.pipeline.t = "Match"
    /\ sd.pipeline.expr.t = "SubqueryComparison"
    /\ sd.pipeline.expr.op = "Neq"
    /\ sd.pipeline.expr.modifier = "All"
    /\ SdStage.expr =
         AirReduce(AirFieldRef(AsVar(0)), AirLiteral(TRUE),
           SQLSemanticOperator("And",
             << AirVariable(<<"value">>),
                SQLSemanticOperator("Ne",
                  << AirLiteral(1), AirVariable(<<"this", ".", "x">>) >>) >>))

C14_Witness_TwoComponentPath ==
    /\ sd.pc = "done"
    /\ sd.pipeline.t = "Match"
    /\ sd.pipeline.expr.t = "SubqueryComparison"
    /\ SdStage.expr.t = "Reduce"
    /\ SdStage.expr.input = AirFieldRef(AsVar(1))
    /\ SdStage.expr.inside.args[2].args[2] =
         AirVariable(<<"this", ".", "x", ".", "y">>)

\* The replacement `out` of the Subquery or SubqueryExists `e`, the idx-th
\* subquery expression of the stage, reads the Lookup that carries e's pipeline.
ReadsOwnLookup(e, out, idx) ==
    /\ idx \in 1..Len(SdChain)
    /\ SdChain[idx].pipeline = visit_stage(sd.visitor, e.pipeline).n
    /\ \A i \in 1..Len(SdChain) : i # idx => SdChain[i].as_var # SdChain[idx].as_var
    /\ IF e.t = "Subquery"
         THEN out =
                AirLet(<<LetVariable("docExpr",
                           MQLSemanticOperator("ElemAt",
                             <<AirFieldRef(SdChain[idx].as_var), AirLiteral(0)>>))>>,
                       AirVariable(<<"docExpr", ".">> \o PathJoin(e.output_path)))
         ELSE out =
                MQLSemanticOperator("Gt",
                  <<MQLSemanticOperator("Size", <<AirFieldRef(SdChain[idx].as_var)>>),
                    AirLiteral(0)>>)

\* C15: the replacement of a Subquery is Let{docExpr := $arrayElemAt(
\* FieldRef(as_name), 0)} in Variable(docExpr.<output_path>), that of a
\* SubqueryExists is $gt[$size(FieldRef(as_name)), 0], and as_name is the
\* as_var of the Lookup that carries that subquery's pipeline in the source
\* chain of the containing stage.
C15_ReplacementReadsOwnLookup ==
    sd.pc = "done" =>
      \A j \in 1..Len(StageExprs(sd.pipeline)) :
        LET e == StageExprs(sd.pipeline)[j]
            out == StageExprs(SdStage)[j]
        IN  /\ e.t \in {"Subquery", "SubqueryExists"} =>
                 ReadsOwnLookup(e, out, SdCount(j))
            /\ e.t = "Op" =>
                 \A m \in 1..Len(e.args) :
                   e.args[m].t \in {"Subquery", "SubqueryExists"} =>
                     ReadsOwnLookup(e.args[m], out.args[m],
                       SdCount(j - 1) + Len(SubqueryNodesOfSeq(SubSeq(e.args, 1, m))))
            /\ (e.t = "SubqueryComparison"
                  /\ e.arg.t \in {"Subquery", "SubqueryExists"}) =>
                 ReadsOwnLookup(e.arg, out.inside.args[2].args[1], SdCount(j) - 1)

C15_Witness_SecondSubquery ==
    /\ sd.pc = "done"
    /\ sd.pipeline.t = "Group"
    /\ Len(sd.pipeline.keys) = 2
    /\ sd.pipeline.keys[1].t = "SubqueryExists"
    /\ sd.pipeline.keys[2].t = "Subquery"
    /\ SdStage.keys[1] =
         MQLSemanticOperator("Gt",
           <<MQLSemanticOperator("Size", <<AirFieldRef(AsVar(0))>>), AirLiteral(0)>>)
    /\ SdStage.keys[2].t = "Let"
    /\ SdStage.keys[2].vars[1].expr.args[1] = AirFieldRef(AsVar(1))
    /\ SdStage.keys[2].inside = AirVariable(<<"docExpr", ".", "x", ".", "y">>)

\* Every Subquery, SubqueryComparison and SubqueryExists expression of a
\* tree, in whatever stage or expression it sits.
RECURSIVE SubqueryExprsIn(_)
SubqueryExprsIn(node) ==
    CASE node.t = "Match" ->
           SubqueryExprsIn(node.source) \cup SubqueryExprsIn(node.expr)
      [] node.t = "Group" ->
           SubqueryExprsIn(node.source)
             \cup UNION {SubqueryExprsIn(node.keys[i]) : i \in 1..Len(node.keys)}
      [] node.t \in {"Limit", "Project"} -> SubqueryExprsIn(node.source)
      [] node.t = "Lookup" ->
           SubqueryExprsIn(node.source) \cup SubqueryExprsIn(node.pipeline)
      [] node.t \in {"Op", "MQLSemanticOperator", "SQLSemanticOperator"} ->
           UNION {SubqueryExprsIn(node.args[i]) : i \in 1..Len(node.args)}
      [] node.t = "Let" ->
           SubqueryExprsIn(node.inside)
             \cup UNION {SubqueryExprsIn(node.vars[i].expr) :
                           i \in 1..Len(node.vars)}
      [] node.t = "Reduce" ->
           SubqueryExprsIn(node.input) \cup SubqueryExprsIn(node.init_value)
             \cup SubqueryExprsIn(node.inside)
      [] node.t \in {"Subquery", "SubqueryExists"} ->
           {node} \cup SubqueryExprsIn(node.pipeline)
      [] node.t = "SubqueryComparison" ->
           {node} \cup SubqueryExprsIn(node.arg)
             \cup SubqueryExprsIn(node.subquery.pipeline)
      [] OTHER -> {}

\* C23: the pipeline SubqueryExprDesugarerPass::apply returns holds no
\* Subquery, SubqueryComparison or SubqueryExists expression in any stage,
\* and the Lookup chain of a stage with subquery expressions sits on the
\* desugared form of its source stage.
C23_NoSubqueryRemains ==
    sd.pc = "done" =>
      /\ SubqueryExprsIn(sd.result) = {}
      /\ SdNodes # <<>> =>
           ChainBottom(SdStage.source)
             = visit_stage(sd.visitor, get_source(sd.pipeline)).n

\* What holds of the code: nothing remains when the source stage of the
\* pipeline holds no subquery expression, and the stage's own expressions
\* and the pipelines of its Lookups are always free of them.
NoSubqueryRemainsAboveSource ==
    sd.pc = "done" =>
      /\ SubqueryExprsIn(get_source(sd.pipeline)) = {} =>
           SubqueryExprsIn(sd.result) = {}
      /\ \A i \in 1..Len(StageExprs(SdStage)) :
           SubqueryExprsIn(StageExprs(SdStage)[i]) = {}
      /\ \A i \in 1..Len(SdChain) : SubqueryExprsIn(SdChain[i].pipeline) = {}

\* The source stage's subquery expression survives under the Lookup chain.
SubqueryLeftInSource ==
    /\ sd.pc = "done"
    /\ SdNodes # <<>>
    /\ SubqueryExprsIn(get_source(sd.pipeline)) # {}
    /\ ChainBottom(SdStage.source) = get_source(sd.pipeline)
    /\ SubqueryExprsIn(sd.result) # {}

\* The Lookup chain `chain` is `base` with k more Lookups on top.
RECURSIVE StripLookups(_, _)
StripLookups(stage, k) ==
    IF k = 0 THEN stage ELSE StripLookups(stage.source, k - 1)

\* C24: visit_stage leaves subquery_counter, as_names and subquery_lookups
\* as they were on entry. The visit of the source stage leaves the fields of
\* the enclosing stage at their reset values; the visit of an expression
\* adds one number, one as-name and one Lookup per subquery expression of
\* the enclosing stage only, whatever the stages in the subqueries'
\* pipelines hold; and on return the fields are those of the caller.
C24_VisitorRestored ==
    /\ (sd.pc = "walk" /\ sd.visited = <<>>) =>
         sd.visitor = visit_stage_reset(sd.pipeline)
    /\ sd.pc = "walk" =>
         LET k == Len(SubqueryNodesOfSeq(
                        SubSeq(StageExprs(sd.pipeline), 1, Len(sd.visited))))
         IN  /\ sd.visitor.subquery_counter = k
             /\ sd.visitor.as_names = ZeroBased(k)
             /\ Len(LookupChain(sd.visitor.subquery_lookups)) = k
             /\ StripLookups(sd.visitor.subquery_lookups, k)
                  = get_source(sd.pipeline)
    /\ sd.pc = "done" =>
         sd.visitor = Visitor(0, <<>>, get_source(sd.pipeline))

\* A stage with a subquery expression inside the pipeline of a subquery of
\* the enclosing stage, over a source stage with a subquery expression of
\* its own: both were desugared by nested calls of visit_stage.
C24_Witness_NestedStage ==
    /\ sd.pc = "walk"
    /\ Len(sd.visited) >= 1
    /\ SubqueryExprsIn(get_source(sd.pipeline)) # {}
    /\ sd.stage.source.t = "Project"
    /\ sd.visitor.subquery_counter = 1
    /\ sd.visitor.subquery_lookups.t = "Lookup"
    /\ sd.visitor.subquery_lookups.pipeline.t = "Limit"
    /\ sd.visitor.subquery_lookups.pipeline.source.t = "Project"

C24_Witness_Returned ==
    /\ sd.pc = "done"
    /\ sd.walked.subquery_counter = 2
    /\ sd.visitor.subquery_counter = 0
    /\ sd.visitor.as_names = <<>>

\* One stage with many subquery expressions: visit_stage from its reset to
\* its exit, one process_subquery_expr per subquery expression of the stage.
\* overflow_checks tells whether the build panics on integer overflow.
MaxSubqueryExprs == 258

CounterStage == AirMatch(AirCollection, AirLiteral(1))

CounterInit ==
    /\ sd \in {[pc |-> "stage", overflow_checks |-> b, processed |-> 0,
                visitor |-> visit_stage_reset(CounterStage)] : b \in BOOLEAN}
    /\ dsg = Off /\ sel = Off /\ res = Off /\ jn = Off /\ fnc = Off /\ sq = Off
    /\ la = Off /\ cg = Off /\ sch = Off

CounterOverflows ==
    sd.overflow_checks /\ sd.visitor.subquery_counter + 1 >= U8Modulus

process_subquery_expr_call ==
    /\ sd.pc = "stage"
    /\ sd.processed < MaxSubqueryExprs
    /\ ~CounterOverflows
    /\ sd' = [sd EXCEPT
                !.processed = sd.processed + 1,
                !.visitor = process_subquery_expr(
                              sd.visitor, <<>>, AirLimit(AirCollection, 1)).v]
    /\ UNCHANGED notSd

\* `self.subquery_counter += 1` panics: attempt to add with overflow.
process_subquery_expr_overflow ==
    /\ sd.pc = "stage"
    /\ sd.processed < MaxSubqueryExprs
    /\ CounterOverflows
    /\ sd' = [sd EXCEPT !.pc = "panic"]
    /\ UNCHANGED notSd

\* The stage has no more subquery expressions: visit_stage builds new_stage.
visit_stage_exit ==
    /\ sd.pc = "stage"
    /\ sd' = [pc |-> "done", overflow_checks |-> sd.overflow_checks,
              processed |-> sd.processed,
              visitor |-> visit_stage_restore(
                            Visitor(0, <<>>, get_source(CounterStage)),
                            sd.visitor),
              walked |-> sd.visitor,
              result |-> visit_stage_new_stage(CounterStage, sd.visitor)]
    /\ UNCHANGED notSd

CounterNext ==
    \/ process_subquery_expr_call
    \/ process_subquery_expr_overflow
    \/ visit_stage_exit

SpecSubqueryCounter == CounterInit /\ [][CounterNext]_vars

PairwiseDistinct(names) ==
    \A i, j \in 1..Len(names) : i # j => names[i] # names[j]

\* C26: however many subquery expressions a stage has, subquery_counter
\* counts them without overflowing or wrapping around and the as-names
\* allocated in the stage are pairwise distinct.
C26_AsNamesDistinct ==
    /\ sd.pc # "panic"
    /\ sd.pc = "stage" =>
         /\ sd.visitor.subquery_counter = sd.processed
         /\ PairwiseDistinct(sd.visitor.as_names)

\* What holds of the code: the names are distinct and the counter is exact
\* while the stage has fewer subquery expressions than the u8 has values.
AsNamesDistinctBelowWidth ==
    (sd.pc = "stage" /\ sd.processed < U8Modulus) =>
      /\ sd.visitor.subquery_counter = sd.processed
      /\ sd.visitor.as_names = ZeroBased(sd.processed)
      /\ PairwiseDistinct(sd.visitor.as_names)

\* The outcomes of the 256th and 257th subquery expression of a stage.
CounterPanics == sd.pc = "panic" /\ sd.processed = U8Modulus - 1

CounterWrapsToZero ==
    /\ sd.pc = "stage" /\ sd.processed = U8Modulus
    /\ sd.visitor.subquery_counter = 0

\* After exactly 256 subquery expressions the counter reads 0 and the
\* stage is returned as it is, without its Lookups and without the Project.
LookupsDroppedAfterWrap ==
    /\ sd.pc = "done" /\ sd.processed = U8Modulus
    /\ Len(sd.walked.as_names) = U8Modulus
    /\ sd.result = CounterStage

AsNameAllocatedTwice ==
    /\ sd.pc = "stage" /\ sd.processed = U8Modulus + 1
    /\ sd.visitor.as_names[1] = AsVar(0)
    /\ sd.visitor.as_names[U8Modulus + 1] = AsVar(0)
    /\ sd.visitor.subquery_lookups.as_var = AsVar(0)

(***************************************************************************)
(* codegen/mql.rs : MqlCodeGenerator                                       *)
(***************************************************************************)

\* Largest number of sort specifications in one Sort stage.
MaxSpecs == 2

\* Strings are sequences of tokens; a name supplied by the query (a field, a
\* collection, an alias) is a sequence of one-character tokens.

\* bson::Bson values; a Document is an ordered sequence of <<key, value>>.
BsonString(s) == [b |-> "String", s |-> s]
BsonInt(i) == [b |-> "Int", i |-> i]
BsonArray(a) == [b |-> "Array", a |-> a]
BsonDocument(d) == [b |-> "Document", d |-> d]

\* The doc! / bson! macros with distinct literal keys.
Doc1(k, v) == BsonDocument(<< <<k, v>> >>)
Doc2(k1, v1, k2, v2) == BsonDocument(<< <<k1, v1>>, <<k2, v2>> >>)

DocKeys(d) == {d[i][1] : i \in 1..Len(d)}
RemoveKey(d, k) == SelectSeq(d, LAMBDA kv : kv[1] # k)

\* bson::Document::insert.  An existing key keeps one entry with the new
\* value; the entry keeps its position in an index-map backed Document and
\* moves to the end in a linked-hash-map backed one.
DocumentInsert(moves, d, k, v) ==
    IF k \notin DocKeys(d) THEN Append(d, <<k, v>>)
    ELSE IF moves THEN Append(RemoveKey(d, k), <<k, v>>)
    ELSE [i \in 1..Len(d) |-> IF d[i][1] = k THEN <<k, v>> ELSE d[i]]

\* collect::<bson::Document>() of (key, value) pairs: successive inserts.
RECURSIVE DocumentFromPairs(_, _, _)
DocumentFromPairs(moves, d, pairs) ==
    IF pairs = <<>> THEN d
    ELSE DocumentFromPairs(moves, DocumentInsert(moves, d, pairs[1][1], pairs[1][2]),
                           Tail(pairs))

\* ir::Stage and ir::Expression values handled by the generator
CgCollection(db, collection) ==
    [t |-> "Collection", db |-> db, collection |-> collection]
CgArray(exprs, alias) == [t |-> "Array", exprs |-> exprs, alias |-> alias]
CgFilter(source, condition) ==
    [t |-> "Filter", source |-> source, condition |-> condition]
CgLimit(source, limit) == [t |-> "Limit", source |-> source, limit |-> limit]
CgOffset(source, offset) == [t |-> "Offset", source |-> source, offset |-> offset]
CgSort(source, specs) == [t |-> "Sort", source |-> source, specs |-> specs]
CgProject(source) == [t |-> "Project", source |-> source]
Asc(expr) == [dir |-> "Asc", expr |-> expr]
Dsc(expr) == [dir |-> "Dsc", expr |-> expr]
IrLiteralInteger(i) == [t |-> "Literal", kind |-> "Integer", i |-> i]
IrLiteralString(s) == [t |-> "Literal", kind |-> "String", s |-> s]
IrFunction == [t |-> "Function"]

\* MappingRegistry: a map from Key to name, as a function.
EmptyRegistry == << >>
mappings(key, name) == [k \in {key} |-> name]
MappingRegistry_merge(self, other) ==
    [k \in (DOMAIN self) \cup (DOMAIN other) |->
       IF k \in DOMAIN other THEN other[k] ELSE self[k]]

MqlTranslation(database, collection, mapping_registry, pipeline) ==
    [database |-> database, collection |-> collection,
     mapping_registry |-> mapping_registry, pipeline |-> pipeline]

with_additional_stage_as(self, stage) ==
    [self EXCEPT !.pipeline = <<stage>> \o self.pipeline]

with_additional_stage(self, stage) ==
    [self EXCEPT !.pipeline = Append(self.pipeline, stage)]

\* An MqlCodeGenerator; document_moves records which bson::Document the
\* build links (see DocumentInsert).
MqlCodeGenerator(mapping_registry, document_moves) ==
    [mapping_registry |-> mapping_registry, document_moves |-> document_moves]

with_merged_mappings(self, m) ==
    [self EXCEPT !.mapping_registry = MappingRegistry_merge(self.mapping_registry, m)]

\* unimplemented!()
Unimplemented == Err("panic: not implemented")

\* fa.field.contains(&['.', '$'])
ContainsDotOrDollar(field) == \E i \in 1..Len(field) : field[i] \in {".", "$"}

\* collect::<Result<Vec<_>>>(): the values, or the first error.
RECURSIVE CollectResults(_)
CollectResults(rs) ==
    IF rs = <<>> THEN Ok(<<>>)
    ELSE IF ~rs[1].ok THEN rs[1]
    ELSE LET rest == CollectResults(Tail(rs))
         IN  IF rest.ok THEN Ok(<<rs[1].val>> \o rest.val) ELSE rest

RECURSIVE codegen_expression(_, _)

field_access_translation_as(e, field) ==
    Doc1(<<"$let">>,
      Doc2(<<"vars">>, Doc1(<<"docExpr">>, e),
           <<"in">>, BsonString(<<"$$docExpr", ".">> \o field)))

field_access_translation(e, field) ==
    IF e.b = "String"
      THEN BsonString(e.s \o <<".">> \o field)
      ELSE Doc1(<<"$let">>,
             Doc2(<<"vars">>, Doc1(<<"docExpr">>, e),
                  <<"in">>, BsonString(<<"$$docExpr", ".">> \o field)))

codegen_expression(self, expr) ==
    CASE expr.t = "Literal" ->
           Ok(Doc1(<<"$literal">>,
                   IF expr.kind = "String" THEN BsonString(expr.s)
                   ELSE BsonInt(expr.i)))
      [] expr.t = "Reference" ->
           IF expr.key \in DOMAIN self.mapping_registry
             THEN Ok(BsonString(<<"$">> \o self.mapping_registry[expr.key]))
             ELSE Err([e |-> "ReferenceNotFound", key |-> expr.key])
      [] expr.t = "FieldAccess" ->
           IF ContainsDotOrDollar(expr.field)
             THEN Err("DotsOrDollarsInFieldName")
             ELSE LET e == codegen_expression(self, expr.expr)
                  IN  IF e.ok THEN Ok(field_access_translation(e.val, expr.field))
                      ELSE e
      [] expr.t = "Array" ->
           LET es == CollectResults(
                       [i \in 1..Len(expr.exprs) |->
                          codegen_expression(self, expr.exprs[i])])
           IN  IF es.ok THEN Ok(BsonArray(es.val)) ELSE es
      [] expr.t = "Document" ->
           IF expr.map = <<>>
             THEN Ok(Doc1(<<"$literal">>, BsonDocument(<<>>)))
             ELSE LET kvs == CollectResults(
                        [i \in 1..Len(expr.map) |->
                           IF Head(expr.map[i][1]) = "$"
                             THEN Err("DotsOrDollarsInFieldName")
                             ELSE LET v == codegen_expression(self, expr.map[i][2])
                                  IN  IF v.ok THEN Ok(<<expr.map[i][1], v.val>>)
                                      ELSE v])
                  IN  IF kvs.ok
                        THEN Ok(BsonDocument(
                               DocumentFromPairs(self.document_moves, <<>>, kvs.val)))
                        ELSE kvs
      [] expr.t \in {"Function", "SubqueryExpression", "SubqueryComparison", "Exists"} ->
           Unimplemented

RECURSIVE codegen_stage(_, _)

\* One element of the map over sort.specs in codegen_sort.
sort_spec(expr_code_generator, spec) ==
    LET direction == IF spec.dir = "Asc" THEN BsonInt(1) ELSE BsonInt(-1)
    IN  IF spec.expr.t \notin {"Reference", "FieldAccess"}
          THEN Err("InvalidSortKey")
          ELSE LET expr == codegen_expression(expr_code_generator, spec.expr)
               IN  IF ~expr.ok THEN expr
                   ELSE IF expr.val.b = "String"
                     THEN Ok(<<Tail(expr.val.s), direction>>)
                     ELSE Err("InvalidSortKey")

codegen_sort(self, sort) ==
    LET source_translation == codegen_stage(self, sort.source)
    IN  IF ~source_translation.ok THEN source_translation
        ELSE LET expr_code_generator ==
                   with_merged_mappings(self, source_translation.val.mapping_registry)
                 sort_specs ==
                   CollectResults([i \in 1..Len(sort.specs) |->
                                     sort_spec(expr_code_generator, sort.specs[i])])
             IN  IF ~sort_specs.ok THEN sort_specs
                 ELSE Ok(with_additional_stage(source_translation.val,
                           Doc1(<<"$sort">>,
                             BsonDocument(DocumentFromPairs(self.document_moves,
                                                            <<>>, sort_specs.val)))))

codegen_stage(self, stage) ==
    CASE stage.t = "Filter" ->
           LET src == codegen_stage(self, stage.source)
               cond == codegen_expression(self, stage.condition)
           IN  IF ~src.ok THEN src
               ELSE IF ~cond.ok THEN cond
               ELSE Ok(with_additional_stage(src.val,
                         Doc1(<<"$match">>, Doc1(<<"$expr">>, cond.val))))
      [] stage.t = "Limit" ->
           LET src == codegen_stage(self, stage.source)
           IN  IF ~src.ok THEN src
               ELSE Ok(with_additional_stage(src.val,
                         Doc1(<<"$limit">>, BsonInt(stage.limit))))
      [] stage.t = "Offset" ->
           LET src == codegen_stage(self, stage.source)
           IN  IF ~src.ok THEN src
               ELSE Ok(with_additional_stage(src.val,
                         Doc1(<<"$skip">>, BsonInt(stage.offset))))
      [] stage.t = "Sort" -> codegen_sort(self, stage)
      [] stage.t = "Collection" ->
           Ok(MqlTranslation(Some(stage.db), Some(stage.collection),
                mappings(<<stage.collection, 0>>, stage.collection),
                << Doc1(<<"$project">>,
                     BsonDocument(DocumentFromPairs(self.document_moves, <<>>,
                       << <<<<"_id">>, BsonInt(0)>>,
                          <<stage.collection, BsonString(<<"$$ROOT">>)>> >>))) >>))
      [] stage.t = "Array" ->
           LET docs == CollectResults(
                         [i \in 1..Len(stage.exprs) |->
                            codegen_expression(self, stage.exprs[i])])
           IN  IF ~docs.ok THEN docs
               ELSE Ok(MqlTranslation(None, None,
                         mappings(<<stage.alias, 0>>, stage.alias),
                         << Doc1(<<"$array">>,
                              Doc1(stage.alias, BsonArray(docs.val))) >>))
      [] stage.t \in {"Project", "Group", "Join", "Set"} -> Unimplemented

\* The inputs of the generator.
CgFields == {<<"a">>, <<"b">>, <<"a", ".", "b">>, <<"$", "a">>}

CgBaseExprs ==
    {IrLiteralInteger(1), IrLiteralString(<<"s">>),
     Reference(<< <<"c">>, 0 >>), Reference(<< <<"d">>, 0 >>), IrFunction}

CgFieldAccess1 == {FieldAccess(e, f) : e \in CgBaseExprs, f \in CgFields}
CgFieldAccess2 == {FieldAccess(e, f) : e \in CgFieldAccess1, f \in CgFields}

CgExprs == CgBaseExprs \cup CgFieldAccess1 \cup CgFieldAccess2

CgRegistries ==
    {EmptyRegistry, mappings(<< <<"d">>, 0 >>, <<"d">>),
     mappings(<< <<"c">>, 0 >>, <<"o">>)}

CgGenerators ==
    {MqlCodeGenerator(r, moves) : r \in CgRegistries, moves \in BOOLEAN}

CgLeaves ==
    {CgCollection(<<"m">>, <<"c">>), CgArray(<<>>, <<"r">>),
     CgArray(<<IrLiteralInteger(1)>>, <<"r">>),
     CgProject(CgCollection(<<"m">>, <<"c">>))}

CgSortExprs ==
    {Reference(<< <<"c">>, 0 >>), Reference(<< <<"d">>, 0 >>),
     FieldAccess(Reference(<< <<"c">>, 0 >>), <<"a">>),
     FieldAccess(IrLiteralString(<<"s">>), <<"a">>),
     FieldAccess(Reference(<< <<"c">>, 0 >>), <<"a", ".", "b">>),
     IrLiteralInteger(1)}

CgSortSpecs == {Asc(e) : e \in CgSortExprs} \cup {Dsc(e) : e \in CgSortExprs}

CgConditions ==
    {IrLiteralInteger(1), Reference(<< <<"c">>, 0 >>),
     FieldAccess(Reference(<< <<"d">>, 0 >>), <<"a">>)}

\* One Filter, Limit, Offset or Sort over each source of `sources`.
CgStagesOver(sources, conditions, specss) ==
    {CgFilter(src, c) : src \in sources, c \in conditions}
    \cup {CgLimit(src, 1) : src \in sources}
    \cup {CgOffset(src, 2) : src \in sources}
    \cup {CgSort(src, specs) : src \in sources, specs \in specss}

CgChainsOver(sources) ==
    CgStagesOver(sources, {IrLiteralInteger(1)},
                 {<<Asc(Reference(<< <<"c">>, 0 >>))>>,
                  <<Dsc(Reference(<< <<"r">>, 0 >>))>>})

CgStages ==
    CgLeaves
    \cup CgStagesOver(CgLeaves, CgConditions, SeqsUpTo(CgSortSpecs, MaxSpecs))
    \cup CgChainsOver(CgChainsOver(CgLeaves))
    \cup CgChainsOver(CgChainsOver(CgChainsOver(CgLeaves)))

notCg == <<dsg, sel, res, jn, fnc, sq, la, sd, sch>>

CgInit ==
    /\ cg = [pc |-> "idle"]
    /\ dsg = Off /\ sel = Off /\ res = Off /\ jn = Off /\ fnc = Off /\ sq = Off
    /\ la = Off /\ sd = Off /\ sch = Off

codegen_stage_call ==
    /\ cg.pc = "idle"
    /\ \E self \in CgGenerators, stage \in CgStages :
         cg' = [pc |-> "done", op |-> "codegen_stage", self |-> self,
                arg |-> stage, result |-> codegen_stage(self, stage)]
    /\ UNCHANGED notCg

codegen_expression_call ==
    /\ cg.pc = "idle"
    /\ \E self \in CgGenerators, expr \in CgExprs :
         cg' = [pc |-> "done", op |-> "codegen_expression", self |-> self,
                arg |-> expr, result |-> codegen_expression(self, expr)]
    /\ UNCHANGED notCg

CgNext ==
    \/ codegen_stage_call
    \/ codegen_expression_call

SpecCodegen == CgInit /\ [][CgNext]_vars

\* The Filter, Limit, Offset and Sort stages of a chain, source first, and
\* the stage the chain sits on.
RECURSIVE ChainKinds(_)
ChainKinds(stage) ==
    IF stage.t \in {"Filter", "Limit", "Offset", "Sort"}
      THEN Append(ChainKinds(stage.source), stage.t) ELSE <<>>
RECURSIVE ChainLeaf(_)
ChainLeaf(stage) ==
    IF stage.t \in {"Filter", "Limit", "Offset", "Sort"}
      THEN ChainLeaf(stage.source) ELSE stage

StageDocumentKey(kind) ==
    CASE kind = "Filter" -> <<"$match">>
      [] kind = "Limit" -> <<"$limit">>
      [] kind = "Offset" -> <<"$skip">>
      [] kind = "Sort" -> <<"$sort">>

\* C16: codegen_stage for Filter, Limit, Offset and Sort returns the source's
\* translation with exactly one stage document appended ($match with $expr,
\* $limit, $skip, $sort): the source's pipeline is an unchanged prefix and
\* database, collection and mapping_registry are the source's; a chain of n
\* such stages over a Collection or Array gives n+1 documents in
\* source-to-sink order.
C16_StageAppended ==
    (cg.pc = "done" /\ cg.op = "codegen_stage"
       /\ cg.arg.t \in {"Filter", "Limit", "Offset", "Sort"} /\ cg.result.ok) =>
      LET src == codegen_stage(cg.self, cg.arg.source)
          out == cg.result.val
          n == Len(ChainKinds(cg.arg))
      IN  /\ src.ok
          /\ Len(out.pipeline) = Len(src.val.pipeline) + 1
          /\ SubSeq(out.pipeline, 1, Len(src.val.pipeline)) = src.val.pipeline
          /\ LET last == out.pipeline[Len(out.pipeline)]
             IN  /\ last.b = "Document" /\ Len(last.d) = 1
                 /\ last.d[1][1] = StageDocumentKey(cg.arg.t)
                 /\ cg.arg.t = "Filter" =>
                      /\ last.d[1][2].b = "Document"
                      /\ Len(last.d[1][2].d) = 1
                      /\ last.d[1][2].d[1][1] = <<"$expr">>
                 /\ cg.arg.t = "Limit" => last.d[1][2] = BsonInt(cg.arg.limit)
                 /\ cg.arg.t = "Offset" => last.d[1][2] = BsonInt(cg.arg.offset)
          /\ out.database = src.val.database
          /\ out.collection = src.val.collection
          /\ out.mapping_registry = src.val.mapping_registry
          /\ ChainLeaf(cg.arg).t \in {"Collection", "Array"} =>
               /\ Len(out.pipeline) = n + 1
               /\ \A i \in 1..n :
                    out.pipeline[i + 1].d[1][1] = StageDocumentKey(ChainKinds(cg.arg)[i])

C16_Witness_Chain3 ==
    /\ cg.pc = "done" /\ cg.op = "codegen_stage" /\ cg.result.ok
    /\ ChainKinds(cg.arg) = <<"Filter", "Sort", "Offset">>
    /\ ChainLeaf(cg.arg).t = "Collection"
    /\ Len(cg.result.val.pipeline) = 4
    /\ cg.result.val.collection = Some(<<"c">>)

\* The translation of a sort key by the generator codegen_sort uses, and the
\* two ways a specification is rejected as a sort key.
SortKeyGenerator ==
    with_merged_mappings(cg.self,
      codegen_stage(cg.self, cg.arg.source).val.mapping_registry)
SortKeyTranslation(spec) == codegen_expression(SortKeyGenerator, spec.expr)
NotReferenceOrFieldAccess(spec) == spec.expr.t \notin {"Reference", "FieldAccess"}
FieldAccessNotAString(spec) ==
    /\ spec.expr.t = "FieldAccess"
    /\ SortKeyTranslation(spec).ok
    /\ SortKeyTranslation(spec).val.b # "String"
InvalidKey(spec) == NotReferenceOrFieldAccess(spec) \/ FieldAccessNotAString(spec)
ValidKey(spec) ==
    /\ ~NotReferenceOrFieldAccess(spec)
    /\ SortKeyTranslation(spec).ok
    /\ SortKeyTranslation(spec).val.b = "String"

\* The pair a valid specification stands for.
SortPair(spec) ==
    << Tail(SortKeyTranslation(spec).val.s),
       BsonInt(IF spec.dir = "Asc" THEN 1 ELSE -1) >>

SortCall ==
    /\ cg.pc = "done" /\ cg.op = "codegen_stage" /\ cg.arg.t = "Sort"
    /\ codegen_stage(cg.self, cg.arg.source).ok

\* C17: codegen_sort returns InvalidSortKey for a specification whose
\* expression is neither a Reference nor a FieldAccess and for a FieldAccess
\* whose translation is not one field-reference string (the first rejected
\* specification decides); otherwise every specification contributes its pair
\* (path without the leading $, 1 or -1) to the $sort document, in
\* specification order.
C17_SortDocument ==
    SortCall =>
      LET specs == cg.arg.specs
      IN  /\ \A i \in 1..Len(specs) :
               (InvalidKey(specs[i]) /\ \A k \in 1..(i - 1) : ValidKey(specs[k])) =>
                 cg.result = Err("InvalidSortKey")
          /\ (\A i \in 1..Len(specs) : ValidKey(specs[i])) =>
               /\ cg.result.ok
               /\ LET last == cg.result.val.pipeline[Len(cg.result.val.pipeline)]
                  IN  last = Doc1(<<"$sort">>,
                               BsonDocument([i \in 1..Len(specs) |-> SortPair(specs[i])]))

\* The same statement for specifications whose sort keys are pairwise
\* distinct.
SortDocumentOfDistinctKeys ==
    (SortCall /\ \A i, k \in 1..Len(cg.arg.specs) :
                   (i # k /\ ValidKey(cg.arg.specs[i]) /\ ValidKey(cg.arg.specs[k])) =>
                     SortPair(cg.arg.specs[i])[1] # SortPair(cg.arg.specs[k])[1]) =>
      C17_SortDocument

\* ORDER BY c ASC, c DESC: one $sort entry.
SortOfRepeatedKey ==
    /\ SortCall
    /\ cg.arg.specs = <<Asc(Reference(<< <<"c">>, 0 >>)), Dsc(Reference(<< <<"c">>, 0 >>))>>
    /\ cg.arg.source.t = "Collection"
    /\ cg.result.ok
    /\ cg.result.val.pipeline[2] =
         Doc1(<<"$sort">>, BsonDocument(<< <<<<"c">>, BsonInt(-1)>> >>))

\* C18: codegen_expression(FieldAccess{expr, field}) returns
\* DotsOrDollarsInFieldName when field contains '.' or '$', before expr is
\* translated; otherwise a child that translates to the string s gives the
\* string s.field and a child that translates to another value e gives
\* {$let: {vars: {docExpr: e}, in: "$$docExpr.<field>"}}; a string literal
\* child translates to a $literal document and takes the $let form.
C18_FieldAccess ==
    (cg.pc = "done" /\ cg.op = "codegen_expression" /\ cg.arg.t = "FieldAccess") =>
      LET child == codegen_expression(cg.self, cg.arg.expr)
          field == cg.arg.field
      IN  /\ (\E i \in 1..Len(field) : field[i] = "." \/ field[i] = "$") =>
               cg.result = Err("DotsOrDollarsInFieldName")
          /\ ((\A i \in 1..Len(field) : field[i] # "." /\ field[i] # "$") /\ child.ok) =>
               /\ child.val.b = "String" =>
                    cg.result = Ok(BsonString(child.val.s \o <<".">> \o field))
               /\ child.val.b # "String" =>
                    cg.result =
                      Ok(BsonDocument(<< << <<"$let">>,
                           BsonDocument(<< << <<"vars">>,
                                              BsonDocument(<< << <<"docExpr">>, child.val >> >>) >>,
                                           << <<"in">>,
                                              BsonString(<<"$$docExpr", ".">> \o field) >> >>) >> >>))
          /\ cg.arg.expr.t = "Literal" =>
               child = Ok(BsonDocument(<< << <<"$literal">>,
                            IF cg.arg.expr.kind = "String"
                              THEN BsonString(cg.arg.expr.s)
                              ELSE BsonInt(cg.arg.expr.i) >> >>))

\* A dotted field over a reference that is not in the registry.
C18_Witness_DotsBeforeChild ==
    /\ cg.pc = "done" /\ cg.op = "codegen_expression"
    /\ cg.arg = FieldAccess(Reference(<< <<"c">>, 0 >>), <<"a", ".", "b">>)
    /\ cg.self.mapping_registry = EmptyRegistry
    /\ cg.result = Err("DotsOrDollarsInFieldName")

C18_Witness_StringLiteralChild ==
    /\ cg.pc = "done" /\ cg.op = "codegen_expression"
    /\ cg.arg = FieldAccess(IrLiteralString(<<"s">>), <<"a">>)
    /\ cg.result.ok
    /\ cg.result.val.d[1][1] = <<"$let">>

C18_Witness_NestedReference ==
    /\ cg.pc = "done" /\ cg.op = "codegen_expression"
    /\ cg.arg = FieldAccess(FieldAccess(Reference(<< <<"d">>, 0 >>), <<"a">>), <<"b">>)
    /\ cg.result = Ok(BsonString(<<"$", "d", ".", "a", ".", "b">>))

\* A stage over Collection c whose expression is the reference (c, 0),
\* translated by a generator with an empty mapping registry.
StageOverOwnCollection(kind) ==
    /\ cg.pc = "done" /\ cg.op = "codegen_stage"
    /\ cg.arg.t = kind
    /\ cg.arg.source.t = "Collection"
    /\ cg.self.mapping_registry = EmptyRegistry

\* C25: the condition of a Filter is translated with the mappings of the
\* source stage's translation merged into the generator's: Filter over
\* Collection c with the condition Reference((c, 0)), on a generator with an
\* empty registry, succeeds with {$match: {$expr: "$c"}}.
C25_FilterUsesSourceMappings ==
    (/\ StageOverOwnCollection("Filter")
     /\ cg.arg.condition = Reference(<<cg.arg.source.collection, 0>>)) =>
      /\ cg.result.ok
      /\ cg.result.val.pipeline[Len(cg.result.val.pipeline)] =
           Doc1(<<"$match">>,
                Doc1(<<"$expr">>,
                     BsonString(<<"$">> \o cg.arg.source.collection)))

\* What the code does there, and what Sort does with the same reference.
FilterReferenceNotFound ==
    /\ StageOverOwnCollection("Filter")
    /\ cg.arg.condition = Reference(<<cg.arg.source.collection, 0>>)
    /\ cg.result = Err([e |-> "ReferenceNotFound",
                        key |-> <<cg.arg.source.collection, 0>>])

SortUsesSourceMappings ==
    (/\ StageOverOwnCollection("Sort")
     /\ cg.arg.specs = <<Asc(Reference(<<cg.arg.source.collection, 0>>))>>) =>
      /\ cg.result.ok
      /\ cg.result.val.pipeline[Len(cg.result.val.pipeline)] =
           Doc1(<<"$sort">>,
                BsonDocument(<< <<cg.arg.source.collection, BsonInt(1)>> >>))

SortOverOwnCollection ==
    /\ StageOverOwnCollection("Sort")
    /\ cg.arg.specs = <<Asc(Reference(<<cg.arg.source.collection, 0>>))>>
    /\ cg.result.ok

(***************************************************************************)
(* ir : schema inference of stages (ResultSet)                             *)
(***************************************************************************)

\* Largest number of documents in an Array datasource.
MaxDocs == 3
\* Largest limit and offset.
MaxCount == 4

ResultSet(schema_env, min_size, max_size) ==
    [schema_env |-> schema_env, min_size |-> min_size, max_size |-> max_size]

Min(a, b) == IF a <= b THEN a ELSE b

\* u64::saturating_sub
saturating_sub_as(a, n) == a - n

saturating_sub(a, n) == IF a >= n THEN a - n ELSE 0

\* Limit: the sizes of the result set.
limit_result_set_as(src, limit) ==
    ResultSet(src.schema_env, Min(src.min_size, limit), src.max_size)

limit_result_set(src, limit) ==
    ResultSet(src.schema_env,
              Min(src.min_size, limit),
              IF src.max_size.some THEN Some(Min(src.max_size.val, limit))
              ELSE Some(limit))

\* Offset: the sizes of the result set.
offset_result_set(src, offset) ==
    ResultSet(src.schema_env,
              saturating_sub(src.min_size, offset),
              IF src.max_size.some THEN Some(saturating_sub(src.max_size.val, offset))
              ELSE None)

\* Schemas: atomics, Missing, unions and documents (keys maps each field
\* name to the schema of its value).
SchemaAtomic(a) == [t |-> "Atomic", a |-> a]
SchemaMissing == [t |-> "Missing"]
SchemaAny == [t |-> "Any"]
SchemaAnyOf(of) == [t |-> "AnyOf", of |-> of]
SchemaDocument(keys, additional_properties) ==
    [t |-> "Document", keys |-> keys,
     additional_properties |-> additional_properties]
ANY_DOCUMENT == SchemaDocument(<< >>, TRUE)

IrLiteralBoolean(b) == [t |-> "Literal", kind |-> "Boolean", b |-> b]
IrDocument(map) == [t |-> "Document", map |-> map]
IrSubqueryExpression(output_expr, subquery) ==
    [t |-> "SubqueryExpression", output_expr |-> output_expr,
     subquery |-> subquery]
SchProject(source, expression) ==
    [t |-> "Project", source |-> source, expression |-> expression]
SchJoin(join_type, left, right, condition) ==
    [t |-> "Join", join_type |-> join_type, left |-> left, right |-> right,
     condition |-> condition]

SchemaError(e) == Err([e |-> e])
SchemaErrorAt(e, arg) == Err([e |-> e, arg |-> arg])

\* SchemaInferenceState: the scope level and the schema environment.
SchemaInferenceState(scope_level, env) ==
    [scope_level |-> scope_level, env |-> env]

\* SchemaInferenceState::subquery_state: one scope deeper, same environment.
subquery_state(state) ==
    SchemaInferenceState(state.scope_level + 1, state.env)

\* SchemaInferenceState::with_merged_schema_env
with_merged_schema_env(state, env) ==
    SchemaInferenceState(state.scope_level, MappingRegistry_merge(state.env, env))

\* The schema of a field of a value of the given schema: the key's schema
\* in a document, Any when the document is open, AccessMissingField when it
\* is closed; a union distributes over its branches.
RECURSIVE field_access_schema(_, _)
field_access_schema(schema, field) ==
    CASE schema.t = "Document" ->
           IF field \in DOMAIN schema.keys THEN Ok(schema.keys[field])
           ELSE IF schema.additional_properties THEN Ok(SchemaAny)
           ELSE SchemaErrorAt("AccessMissingField", field)
      [] schema.t = "AnyOf" ->
           LET rs == CollectResults(
                       [i \in 1..Len(schema.of) |->
                          field_access_schema(schema.of[i], field)])
           IN  IF rs.ok THEN Ok(SchemaAnyOf(rs.val)) ELSE rs
      [] OTHER -> SchemaErrorAt("SchemaChecking", <<"FieldAccess">>)

\* Filter: min_size becomes 0, max_size is the source's.
filter_result_set_as(src) ==
    ResultSet(src.schema_env, src.min_size, src.max_size)

filter_result_set(src) == ResultSet(src.schema_env, 0, src.max_size)

\* The sizes of an inner join: the product of the sides' sizes; a join
\* condition may reject every pair of rows.
join_result_set(env, left, right, condition) ==
    ResultSet(env,
              IF condition.some THEN 0 ELSE left.min_size * right.min_size,
              IF left.max_size.some /\ right.max_size.some
                THEN Some(left.max_size.val * right.max_size.val)
                ELSE None)

\* The schema of a scalar subquery that yields at most one row.
subquery_result_schema_as(rs, schema) == SchemaAnyOf(<<schema, SchemaMissing>>)

subquery_result_schema(rs, schema) ==
    IF rs.min_size = 0 THEN SchemaAnyOf(<<schema, SchemaMissing>>) ELSE schema

\* Stage::schema and Expression::schema.
RECURSIVE Stage_schema_in(_, _)
RECURSIVE Expression_schema(_, _)

\* Expression::schema for SubqueryExpression: the subquery is inferred one
\* scope deeper, output_expr in the subquery's result environment, and only
\* then the cardinality is checked.
subquery_expr_schema(state, expr) ==
    LET rs == Stage_schema_in(subquery_state(state), expr.subquery)
    IN  IF ~rs.ok THEN rs
        ELSE LET out == Expression_schema(
                          SchemaInferenceState(state.scope_level + 1,
                                               rs.val.schema_env),
                          expr.output_expr)
             IN  IF ~out.ok THEN out
                 ELSE IF ~rs.val.max_size.some \/ rs.val.max_size.val > 1
                   THEN SchemaError("InvalidSubqueryCardinality")
                 ELSE Ok(subquery_result_schema(rs.val, out.val))

Expression_schema(state, expr) ==
    CASE expr.t = "Literal" -> Ok(SchemaAtomic(expr.kind))
      [] expr.t = "Reference" ->
           IF expr.key \in DOMAIN state.env THEN Ok(state.env[expr.key])
           ELSE SchemaErrorAt("DatasourceNotFoundInSchemaEnv", expr.key)
      [] expr.t = "Document" ->
           LET vs == CollectResults(
                       [i \in 1..Len(expr.map) |->
                          Expression_schema(state, expr.map[i][2])])
           IN  IF ~vs.ok THEN vs
               ELSE Ok(SchemaDocument(
                         [f \in {expr.map[i][1] : i \in 1..Len(expr.map)} |->
                            vs.val[CHOOSE i \in 1..Len(expr.map) :
                                     expr.map[i][1] = f]],
                         FALSE))
      [] expr.t = "FieldAccess" ->
           LET e == Expression_schema(state, expr.expr)
           IN  IF e.ok THEN field_access_schema(e.val, expr.field) ELSE e
      [] expr.t = "SubqueryExpression" -> subquery_expr_schema(state, expr)

Stage_schema_in(state, stage) ==
    CASE stage.t = "Collection" ->
           Ok(ResultSet(mappings(<<stage.collection, state.scope_level>>,
                                 ANY_DOCUMENT),
                        0, None))
      [] stage.t = "Array" ->
           LET items == CollectResults(
                          [i \in 1..Len(stage.exprs) |->
                             Expression_schema(state, stage.exprs[i])])
           IN  IF ~items.ok THEN items
               ELSE IF \E i \in 1..Len(items.val) : items.val[i].t # "Document"
                 THEN SchemaErrorAt("SchemaChecking", <<"array datasource items">>)
               ELSE Ok(ResultSet(mappings(<<stage.alias, state.scope_level>>,
                                          SchemaAnyOf(items.val)),
                                 Len(stage.exprs), Some(Len(stage.exprs))))
      [] stage.t = "Project" ->
           LET src == Stage_schema_in(state, stage.source)
           IN  IF ~src.ok THEN src
               ELSE LET inner == with_merged_schema_env(state, src.val.schema_env)
                        vs == CollectResults(
                                [i \in 1..Len(stage.expression) |->
                                   Expression_schema(inner, stage.expression[i][2])])
                    IN  IF ~vs.ok THEN vs
                        ELSE Ok(ResultSet(
                               [k \in {stage.expression[i][1] :
                                         i \in 1..Len(stage.expression)} |->
                                  vs.val[CHOOSE i \in 1..Len(stage.expression) :
                                           stage.expression[i][1] = k]],
                               src.val.min_size, src.val.max_size))
      [] stage.t = "Filter" ->
           LET src == Stage_schema_in(state, stage.source)
           IN  IF ~src.ok THEN src
               ELSE LET cond == Expression_schema(
                                  with_merged_schema_env(state, src.val.schema_env),
                                  stage.condition)
                    IN  IF ~cond.ok THEN cond
                        ELSE IF cond.val # SchemaAtomic("Boolean")
                          THEN SchemaErrorAt("SchemaChecking", <<"filter condition">>)
                        ELSE Ok(filter_result_set(src.val))
      [] stage.t = "Sort" ->
           Stage_schema_in(state, stage.source)
      [] stage.t = "Limit" ->
           LET src == Stage_schema_in(state, stage.source)
           IN  IF ~src.ok THEN src ELSE Ok(limit_result_set(src.val, stage.limit))
      [] stage.t = "Offset" ->
           LET src == Stage_schema_in(state, stage.source)
           IN  IF ~src.ok THEN src ELSE Ok(offset_result_set(src.val, stage.offset))
      [] stage.t = "Join" ->
           LET left == Stage_schema_in(state, stage.left)
               right == Stage_schema_in(state, stage.right)
           IN  IF ~left.ok THEN left
               ELSE IF ~right.ok THEN right
               ELSE LET dup == (DOMAIN left.val.schema_env)
                                 \cap (DOMAIN right.val.schema_env)
                    IN  IF dup # {}
                          THEN SchemaErrorAt("DuplicateKeyError",
                                             CHOOSE k \in dup : TRUE)
                          ELSE Ok(join_result_set(
                                    MappingRegistry_merge(left.val.schema_env,
                                                          right.val.schema_env),
                                    left.val, right.val, stage.condition))

\* Stage::schema in the initial state: scope 0, empty environment.
Stage_schema(stage) ==
    Stage_schema_in(SchemaInferenceState(0, << >>), stage)

\* The stages whose schema is inferred.
SchDocs(k) ==
    [i \in 1..k |-> IrDocument(<< <<<<"a">>, IrLiteralInteger(i)>> >>)]

SchLeavesOf(alias) ==
    {CgCollection(<<"t">>, alias)}
    \cup {CgArray(SchDocs(k), alias) : k \in 0..MaxDocs}

SchLeaves == SchLeavesOf(<<"f">>)

SchStagesOver(sources) ==
    {CgLimit(src, n) : src \in sources, n \in 0..MaxCount}
    \cup {CgOffset(src, n) : src \in sources, n \in 0..MaxCount}
    \cup {CgFilter(src, IrLiteralBoolean(TRUE)) : src \in sources}
    \cup {CgSort(src, <<Asc(IrLiteralInteger(1))>>) : src \in sources}
    \cup {SchProject(src, << << << <<"p">>, 0 >>, IrLiteralInteger(1) >> >>) :
            src \in sources}

SchJoinsOver(lefts, rights) ==
    {SchJoin("Inner", l, r, c) :
       l \in lefts, r \in rights, c \in {None, Some(IrLiteralBoolean(FALSE))}}

SchJoins ==
    SchJoinsOver(SchLeaves \cup SchStagesOver(SchLeaves), SchLeavesOf(<<"g">>))
    \cup SchJoinsOver(SchLeavesOf(<<"g">>), SchStagesOver(SchLeaves))

SchStages ==
    SchLeaves \cup SchStagesOver(SchLeaves \cup SchStagesOver(SchLeaves))
    \cup SchJoins \cup SchStagesOver(SchJoins)
    \cup SchJoinsOver(SchLeaves, SchLeaves)

\* The scalar subqueries whose schema is inferred: in scope 0 with the
\* datasource o bound or not; the subquery binds f or Bottom in scope 1.
SchOuterEnvs ==
    {<< >>,
     mappings(<< <<"o">>, 0 >>,
              SchemaDocument(mappings(<<"a">>, SchemaAtomic("String")), FALSE))}

SchSubqueries ==
    SchLeaves \cup SchStagesOver(SchLeaves)
    \cup {SchProject(src,
            << << << <<"Bot">>, 1 >>,
                  IrDocument(<< << <<"a">>,
                     FieldAccess(Reference(<< <<"o">>, 0 >>), <<"a">>) >> >>) >> >>) :
            src \in SchLeaves}

SchOutputExprs ==
    {Reference(<< <<"f">>, 1 >>),
     FieldAccess(Reference(<< <<"f">>, 1 >>), <<"a">>),
     FieldAccess(Reference(<< <<"Bot">>, 1 >>), <<"a">>),
     FieldAccess(Reference(<< <<"Bot">>, 1 >>), <<"b">>),
     Reference(<< <<"o">>, 0 >>)}

notSch == <<dsg, sel, res, jn, fnc, sq, la, sd, cg>>

SchInit ==
    /\ sch = [pc |-> "idle"]
    /\ dsg = Off /\ sel = Off /\ res = Off /\ jn = Off /\ fnc = Off /\ sq = Off
    /\ la = Off /\ sd = Off /\ cg = Off

Stage_schema_call ==
    /\ sch.pc = "idle"
    /\ \E stage \in SchStages :
         sch' = [pc |-> "done", stage |-> stage, result |-> Stage_schema(stage)]
    /\ UNCHANGED notSch

Expression_schema_call ==
    /\ sch.pc = "idle"
    /\ \E env \in SchOuterEnvs, out \in SchOutputExprs, sub \in SchSubqueries :
         LET state == SchemaInferenceState(0, env)
             expr == IrSubqueryExpression(out, sub)
         IN  sch' = [pc |-> "done_expr", state |-> state, expr |-> expr,
                     result |-> Expression_schema(state, expr)]
    /\ UNCHANGED notSch

SchNext == Stage_schema_call \/ Expression_schema_call

SpecSchema == SchInit /\ [][SchNext]_vars

\* C19: for Limit{source, n} max_size is n when the source is unbounded and
\* min(source max_size, n) otherwise, min_size is min(source min_size, n) and
\* schema_env is the source's; hence max_size <= n.
C19_LimitSizes ==
    (sch.pc = "done" /\ sch.stage.t = "Limit") =>
      LET src == Stage_schema(sch.stage.source).val
          n == sch.stage.limit
          out == sch.result.val
      IN  /\ sch.result.ok
          /\ out.max_size.some
          /\ ~src.max_size.some => out.max_size.val = n
          /\ src.max_size.some =>
               /\ out.max_size.val <= src.max_size.val
               /\ out.max_size.val \in {src.max_size.val, n}
          /\ out.max_size.val <= n
          /\ out.min_size <= src.min_size /\ out.min_size <= n
          /\ out.min_size \in {src.min_size, n}
          /\ out.schema_env = src.schema_env

\* limit_collection_datasource, limit_lt_num_docs and limit_gt_num_docs
C19_Witness_Collection ==
    /\ sch.pc = "done"
    /\ sch.stage = CgLimit(CgCollection(<<"t">>, <<"f">>), 4)
    /\ sch.result =
         Ok(ResultSet(mappings(<< <<"f">>, 0 >>, ANY_DOCUMENT), 0, Some(4)))

C19_Witness_LtNumDocs ==
    /\ sch.pc = "done"
    /\ sch.stage.t = "Limit" /\ sch.stage.limit = 2
    /\ sch.stage.source.t = "Array" /\ Len(sch.stage.source.exprs) = 3
    /\ sch.result.val.min_size = 2 /\ sch.result.val.max_size = Some(2)

C19_Witness_GtNumDocs ==
    /\ sch.pc = "done"
    /\ sch.stage.t = "Limit" /\ sch.stage.limit = 4
    /\ sch.stage.source.t = "Array" /\ Len(sch.stage.source.exprs) = 3
    /\ sch.result.val.min_size = 3 /\ sch.result.val.max_size = Some(3)

\* C20: for Offset{source, n} min_size and a bounded max_size are the
\* source's values minus n, saturating at 0; an unbounded max_size stays
\* unbounded; schema_env is the source's.
C20_OffsetSizes ==
    (sch.pc = "done" /\ sch.stage.t = "Offset") =>
      LET src == Stage_schema(sch.stage.source).val
          n == sch.stage.offset
          out == sch.result.val
      IN  /\ sch.result.ok
          /\ out.min_size >= 0
          /\ out.min_size = (IF src.min_size - n > 0 THEN src.min_size - n ELSE 0)
          /\ src.max_size.some =>
               /\ out.max_size.some
               /\ out.max_size.val >= 0
               /\ out.max_size.val =
                    (IF src.max_size.val - n > 0 THEN src.max_size.val - n ELSE 0)
          /\ ~src.max_size.some => ~out.max_size.some
          /\ out.schema_env = src.schema_env

\* offset_collection_datasource, offset_lt_num_docs and offset_gt_num_docs
C20_Witness_GtNumDocs ==
    /\ sch.pc = "done"
    /\ sch.stage.t = "Offset" /\ sch.stage.offset = 4
    /\ sch.stage.source.t = "Array" /\ Len(sch.stage.source.exprs) = 3
    /\ sch.result.val.min_size = 0 /\ sch.result.val.max_size = Some(0)

C20_Witness_LtNumDocs ==
    /\ sch.pc = "done"
    /\ sch.stage.t = "Offset" /\ sch.stage.offset = 1
    /\ sch.stage.source.t = "Array" /\ Len(sch.stage.source.exprs) = 3
    /\ sch.result.val.min_size = 2 /\ sch.result.val.max_size = Some(2)

C20_Witness_Collection ==
    /\ sch.pc = "done"
    /\ sch.stage = CgOffset(CgCollection(<<"t">>, <<"f">>), 4)
    /\ sch.result =
         Ok(ResultSet(mappings(<< <<"f">>, 0 >>, ANY_DOCUMENT), 0, None))

C21_Witness_Filter ==
    /\ sch.pc = "done"
    /\ sch.stage.t = "Filter"
    /\ sch.stage.source.t = "Array" /\ Len(sch.stage.source.exprs) = 1
    /\ sch.result.ok
    /\ sch.result.val.min_size = 0 /\ sch.result.val.max_size = Some(1)

\* cross_join and inner_join
C21_Witness_CrossJoin ==
    /\ sch.pc = "done"
    /\ sch.stage.t = "Join" /\ sch.stage.condition = None
    /\ sch.stage.left.t = "Array" /\ Len(sch.stage.left.exprs) = 3
    /\ sch.stage.right.t = "Array" /\ Len(sch.stage.right.exprs) = 2
    /\ sch.result.ok
    /\ sch.result.val.min_size = 6 /\ sch.result.val.max_size = Some(6)

C21_Witness_InnerJoin ==
    /\ sch.pc = "done"
    /\ sch.stage.t = "Join" /\ sch.stage.condition.some
    /\ sch.stage.left.t = "Array" /\ Len(sch.stage.left.exprs) = 3
    /\ sch.stage.right.t = "Array" /\ Len(sch.stage.right.exprs) = 2
    /\ sch.result.ok
    /\ sch.result.val.min_size = 0 /\ sch.result.val.max_size = Some(6)

SchSubqueryResultSet ==
    Stage_schema_in(subquery_state(sch.state), sch.expr.subquery)

SchOutputSchema ==
    Expression_schema(
      SchemaInferenceState(sch.state.scope_level + 1,
                           SchSubqueryResultSet.val.schema_env),
      sch.expr.output_expr)

SchTooManyRows ==
    \/ ~SchSubqueryResultSet.val.max_size.some
    \/ SchSubqueryResultSet.val.max_size.val > 1

\* C22 as stated: a SubqueryExpression whose subquery has an unbounded
\* max_size or one greater than 1 always yields InvalidSubqueryCardinality;
\* otherwise the result is the schema of output_expr, with Missing added
\* exactly when min_size = 0.
C22_Cardinality_AsStated ==
    (sch.pc = "done_expr" /\ SchSubqueryResultSet.ok) =>
      /\ SchTooManyRows =>
           sch.result = SchemaError("InvalidSubqueryCardinality")
      /\ (~SchTooManyRows /\ SchOutputSchema.ok) =>
           sch.result =
             Ok(IF SchSubqueryResultSet.val.min_size = 0
                  THEN SchemaAnyOf(<<SchOutputSchema.val, SchemaMissing>>)
                  ELSE SchOutputSchema.val)

\* C22: when the subquery and output_expr (in the subquery's result
\* environment) both infer without error, a SubqueryExpression yields
\* InvalidSubqueryCardinality if the subquery's max_size is unbounded or
\* greater than 1, and otherwise the schema of output_expr, widened to
\* AnyOf(schema, Missing) when min_size = 0 and unchanged when the subquery
\* returns exactly one row; an error of output_expr is returned whatever the
\* cardinality is.
C22_Cardinality ==
    (sch.pc = "done_expr" /\ SchSubqueryResultSet.ok) =>
      /\ ~SchOutputSchema.ok => sch.result = SchOutputSchema
      /\ (SchOutputSchema.ok /\ SchTooManyRows) =>
           sch.result = SchemaError("InvalidSubqueryCardinality")
      /\ (SchOutputSchema.ok /\ ~SchTooManyRows) =>
           /\ sch.result.ok
           /\ SchSubqueryResultSet.val.min_size = 0 =>
                sch.result.val =
                  SchemaAnyOf(<<SchOutputSchema.val, SchemaMissing>>)
           /\ SchSubqueryResultSet.val.min_size = 1 =>
                /\ SchSubqueryResultSet.val.max_size = Some(1)
                /\ sch.result.val = SchOutputSchema.val

\* subquery_expression_cardinality_must_be_one
C22_Witness_MustBeOne ==
    /\ sch.pc = "done_expr"
    /\ sch.expr.subquery.t = "Array" /\ Len(sch.expr.subquery.exprs) = 1
    /\ sch.expr.output_expr =
         FieldAccess(Reference(<< <<"f">>, 1 >>), <<"a">>)
    /\ sch.result = Ok(SchemaAnyOf(<<SchemaAtomic("Integer")>>))

\* uncorrelated_subquery_cardinality_is_zero
C22_Witness_CardinalityIsZero ==
    /\ sch.pc = "done_expr"
    /\ sch.expr.subquery.t = "Array" /\ Len(sch.expr.subquery.exprs) = 0
    /\ sch.expr.output_expr = Reference(<< <<"f">>, 1 >>)
    /\ sch.result =
         Ok(SchemaAnyOf(<<SchemaAnyOf(<< >>), SchemaMissing>>))

\* correlated_subquery
C22_Witness_Correlated ==
    /\ sch.pc = "done_expr"
    /\ sch.expr.subquery.t = "Project"
    /\ sch.expr.subquery.source.t = "Array"
    /\ Len(sch.expr.subquery.source.exprs) = 0
    /\ sch.result =
         Ok(SchemaAnyOf(<<SchemaAtomic("String"), SchemaMissing>>))

\* subquery_cardinality_may_be_1 and subquery_expression_cardinality_gt_one
C22_Witness_Unbounded ==
    /\ sch.pc = "done_expr"
    /\ sch.expr.subquery.t = "Collection"
    /\ sch.expr.output_expr = Reference(<< <<"f">>, 1 >>)
    /\ sch.result = SchemaError("InvalidSubqueryCardinality")

C22_Witness_GtOne ==
    /\ sch.pc = "done_expr"
    /\ sch.expr.subquery.t = "Array" /\ Len(sch.expr.subquery.exprs) = 2
    /\ sch.expr.output_expr =
         FieldAccess(Reference(<< <<"f">>, 1 >>), <<"a">>)
    /\ sch.result = SchemaError("InvalidSubqueryCardinality")

\* A subquery that may return no row or one row.
C22_Witness_ZeroOrOne ==
    /\ sch.pc = "done_expr"
    /\ SchSubqueryResultSet.ok
    /\ SchSubqueryResultSet.val.min_size = 0
    /\ SchSubqueryResultSet.val.max_size = Some(1)
    /\ sch.result.ok /\ sch.result.val.t = "AnyOf"
    /\ sch.result.val.of[2] = SchemaMissing

\* subquery_output_expr_violates_type_constraints and
\* subquery_output_expr_correlated_datasource
C22_Witness_OutputExprErrorFirst ==
    /\ sch.pc = "done_expr"
    /\ sch.expr.subquery.t = "Project"
    /\ sch.expr.subquery.source.t = "Collection"
    /\ SchSubqueryResultSet.ok /\ SchTooManyRows
    /\ sch.result = SchemaErrorAt("AccessMissingField", <<"b">>)

C22_Witness_OutputExprNotFound ==
    /\ sch.pc = "done_expr"
    /\ SchSubqueryResultSet.ok /\ SchTooManyRows
    /\ sch.expr.output_expr = Reference(<< <<"o">>, 0 >>)
    /\ sch.result.ok = FALSE
    /\ sch.result.err.e = "DatasourceNotFoundInSchemaEnv"

====
